---- MODULE Spec2Model ----
(***************************************************************************)
(* Model of the vyberology-2.0 differential code generation pipeline:      *)
(* the Diff Builder and the Adjudicator (packages/adjudicator), Generator  *)
(* B (the A4 dual codegen) and the Manifest Parser (the shared manifest    *)
(* loader).                                                                *)
(*                                                                         *)
(* Text is modelled as a sequence of symbols.  A symbol is one character   *)
(* of the text, written as a one-character string, except that a maximal   *)
(* run of word characters that no pattern of the code looks into (an       *)
(* identifier, a keyword) is written as one symbol.  Whitespace, '/', '*', *)
(* quotes, digits and punctuation are always single characters.            *)
(***************************************************************************)
EXTENDS Integers, Sequences, FiniteSets, TLC

VARIABLES
    a3Output,     \* ComparisonInput.a3Output / buildDiff's first argument
    a4Output,     \* ComparisonInput.a4Output / buildDiff's second argument
    options,      \* ComparisonInput.options
    absent,       \* the parts of adjudicate's input that are undefined
    diffResult,   \* what buildDiff returned
    diffReport,   \* what generateDiffReport returned
    verdict,      \* what adjudicate returned
    clock,        \* the wall clock read by new Date() / Date.now()
    pc,           \* position of the caller
    fileKind,     \* what is at config.manifestPath: a file, nothing, a directory
    manifestFile, \* the text of the file at config.manifestPath
    gen,          \* the locals of each generate call of Generator B
    output,       \* what each generate call returned
    loaded,       \* what loadManifest returned
    hashes,       \* what hashManifest returned for the document and for a reordering of it
    keyText,      \* the text after the colon of a key line given to parseYaml
    parsed,       \* what the key line stored: no value, or the parseValue of the text
    walk          \* the loop variables of parseYaml on the document, and the line it is at

\* the variables of the comparator, but the clock
compVars ==
    <<a3Output, a4Output, options, absent, diffResult, diffReport, verdict, pc>>

\* the variables of the generator and of the manifest loader
genVars == <<fileKind, manifestFile, gen, output, loaded, hashes>>

\* the variables of the reading of one key line
valueVars == <<keyText, parsed, walk>>

vars == <<compVars, clock, genVars, valueVars>>

\* largest value the wall clock takes in a run
MaxClock == 1

\* most files a bundle given to the comparator holds
MaxFiles == 2

----------------------------------------------------------------------------
(* Sequences *)

Range(s) == {s[i] : i \in 1..Len(s)}

RECURSIVE FlattenSeq(_)
FlattenSeq(ss) ==
    IF ss = <<>> THEN <<>> ELSE Head(ss) \o FlattenSeq(Tail(ss))

Min(S) == CHOOSE x \in S : \A y \in S : x <= y

Max(S) == CHOOSE x \in S : \A y \in S : y <= x

\* the rest of s from position i on (String.prototype.substring(i - 1))
From(s, i) == SubSeq(s, i, Len(s))

----------------------------------------------------------------------------
(* Character classes of the regular expressions *)

\* [ \t]
SpaceTab == {" ", "\t"}

\* \s
Whitespace == {" ", "\t", "\n", "\r"}

\* what '.' does not match and '$' (with the m flag) stops at
LineTerminator == {"\n", "\r"}

IsWhitespace(c) == c \in Whitespace

----------------------------------------------------------------------------
(* normalizeWhitespace *)

\* .replace(/\r\n/g, '\n')
RECURSIVE ReplaceCRLF(_)
ReplaceCRLF(s) ==
    IF s = <<>> THEN <<>>
    ELSE IF Len(s) >= 2 /\ s[1] = "\r" /\ s[2] = "\n"
         THEN <<"\n">> \o ReplaceCRLF(From(s, 3))
         ELSE <<s[1]>> \o ReplaceCRLF(Tail(s))

\* length of the longest prefix of s made of symbols of the class S
PrefixLen(s, S) ==
    LET others == {i \in 1..Len(s) : s[i] \notin S}
    IN  IF others = {} THEN Len(s) ELSE Min(others) - 1

\* length of the longest prefix of s holding no symbol of the class S
PrefixLenNot(s, S) ==
    LET stops == {i \in 1..Len(s) : s[i] \in S}
    IN  IF stops = {} THEN Len(s) ELSE Min(stops) - 1

\* .replace(/[ \t]+/g, ' ')
RECURSIVE CollapseSpaceTab(_)
CollapseSpaceTab(s) ==
    IF s = <<>> THEN <<>>
    ELSE IF s[1] \in SpaceTab
         THEN <<" ">> \o CollapseSpaceTab(From(s, 1 + PrefixLen(s, SpaceTab)))
         ELSE <<s[1]>> \o CollapseSpaceTab(Tail(s))

\* .replace(/\n\s*\n/g, '\n'): at a newline, the greedy \s* takes the whole run
\* of whitespace after it and backs off to the last newline of that run
RECURSIVE CollapseBlankLines(_)
CollapseBlankLines(s) ==
    IF s = <<>> THEN <<>>
    ELSE IF s[1] = "\n"
         THEN LET run == PrefixLen(Tail(s), Whitespace)
                  nls == {j \in 1..run : s[1 + j] = "\n"}
              IN  IF nls = {}
                  THEN <<"\n">> \o CollapseBlankLines(Tail(s))
                  ELSE <<"\n">> \o CollapseBlankLines(From(s, Max(nls) + 2))
         ELSE <<s[1]>> \o CollapseBlankLines(Tail(s))

\* String.prototype.trim
TrimStart(s) == From(s, 1 + PrefixLen(s, Whitespace))

RECURSIVE Reverse(_)
Reverse(s) == IF s = <<>> THEN <<>> ELSE Reverse(Tail(s)) \o <<Head(s)>>

Trim(s) == Reverse(TrimStart(Reverse(TrimStart(s))))

normalizeWhitespace(content) ==
    Trim(CollapseBlankLines(CollapseSpaceTab(ReplaceCRLF(content))))

----------------------------------------------------------------------------
(* removeComments *)

\* content.replace(/\/\/.*$/gm, ''): from "//" to the end of the line
RECURSIVE RemoveLineComments(_)
RemoveLineComments(s) ==
    IF s = <<>> THEN <<>>
    ELSE IF Len(s) >= 2 /\ s[1] = "/" /\ s[2] = "/"
         THEN RemoveLineComments(From(s, 1 + PrefixLenNot(s, LineTerminator)))
         ELSE <<s[1]>> \o RemoveLineComments(Tail(s))

\* result.replace(/\/\*[\s\S]*?\*\//g, ''): from "/*" to the first "*/" after it
RECURSIVE RemoveBlockComments(_)
RemoveBlockComments(s) ==
    IF s = <<>> THEN <<>>
    ELSE IF Len(s) >= 2 /\ s[1] = "/" /\ s[2] = "*"
         THEN LET closers == {j \in 3..(Len(s) - 1) : s[j] = "*" /\ s[j + 1] = "/"}
              IN  IF closers = {}
                  THEN <<s[1]>> \o RemoveBlockComments(Tail(s))
                  ELSE RemoveBlockComments(From(s, Min(closers) + 2))
         ELSE <<s[1]>> \o RemoveBlockComments(Tail(s))

removeComments(content) == RemoveBlockComments(RemoveLineComments(content))

----------------------------------------------------------------------------
(* Bundles (CodegenOutput) *)

\* a3Meta.generator / a4Meta.generator of a bundle that carries none
Undefined == "undefined"

\* new Set(files.map(f => f.path)): the paths in insertion order, each once
RECURSIVE PathSet(_)
PathSet(files) ==
    IF files = <<>> THEN <<>>
    ELSE LET front == PathSet(SubSeq(files, 1, Len(files) - 1))
             p == files[Len(files)].path
         IN  IF p \in Range(front) THEN front ELSE Append(front, p)

\* files.find(f => f.path === path): position of the first such file, 0 if none
FindFile(files, path) ==
    LET hits == {i \in 1..Len(files) : files[i].path = path}
    IN  IF hits = {} THEN 0 ELSE Min(hits)

\* content.split('\n').length
LineCount(content) == 1 + Cardinality({i \in 1..Len(content) : content[i] = "\n"})

----------------------------------------------------------------------------
(* Diff Builder: extractExports *)

\* single characters that are not \w
Punctuation ==
    {"/", "*", "=", ";", ",", "{", "}", "[", "]", "(", ")", ":", "'", "\"",
     ".", "#", "-", "|", "<", ">", "+", "?", "!", "&"}

NonWord == Whitespace \cup Punctuation

\* all matches of /export\s+<keyword>\s+(\w+)/g, in scan order
RECURSIVE ExportMatches(_, _)
ExportMatches(s, keyword) ==
    IF s = <<>> THEN <<>>
    ELSE LET k == PrefixLen(Tail(s), Whitespace)
             m == PrefixLen(From(s, 3 + k), Whitespace)
             n == PrefixLenNot(From(s, 3 + k + m), NonWord)
         IN  IF /\ s[1] = "export"
                /\ k >= 1
                /\ Len(s) >= 2 + k
                /\ s[2 + k] = keyword
                /\ m >= 1
                /\ n >= 1
             THEN <<SubSeq(s, 3 + k + m, 2 + k + m + n)>>
                      \o ExportMatches(From(s, 3 + k + m + n), keyword)
             ELSE ExportMatches(Tail(s), keyword)

\* the word symbols that the contents of this model use, in code unit order
WordOrder ==
    <<"1", "2", "3", "This", "a", "arr", "b", "bar", "compute", "const",
      "constant", "export", "foo", "from", "function", "hello", "http", "import",
      "interface", "is", "obj", "output", "result", "s", "type", "u", "x">>

WordRank(w) ==
    LET at == {i \in 1..Len(WordOrder) : WordOrder[i] = w}
    IN  IF at = {} THEN Len(WordOrder) + 1 ELSE Min(at)

\* a < b for two names, symbol by symbol
RECURSIVE NameBefore(_, _)
NameBefore(a, b) ==
    IF b = <<>> THEN FALSE
    ELSE IF a = <<>> THEN TRUE
    ELSE IF WordRank(a[1]) # WordRank(b[1]) THEN WordRank(a[1]) < WordRank(b[1])
    ELSE NameBefore(Tail(a), Tail(b))

\* Array.prototype.sort on names
RECURSIVE SortNames(_)
SortNames(names) ==
    IF names = <<>> THEN <<>>
    ELSE LET rest == SortNames(Tail(names))
             h == Head(names)
             smaller == SelectSeq(rest, LAMBDA x : NameBefore(x, h))
             others == SelectSeq(rest, LAMBDA x : ~NameBefore(x, h))
         IN  smaller \o <<h>> \o others

extractExports(content) ==
    SortNames(ExportMatches(content, "const")
              \o ExportMatches(content, "function")
              \o ExportMatches(content, "type")
              \o ExportMatches(content, "interface"))

----------------------------------------------------------------------------
(* Diff Builder: compareContent, compareMetadata, buildDiff, generateDiffReport *)

\* compareContentBasic without the loop over the exports of A4
CompareContentBasicA3Only(a3Content, a4Content, path) ==
    LET a3Exports == extractExports(a3Content)
        a4Exports == extractExports(a4Content)
        onlyA3 == SelectSeq(a3Exports, LAMBDA e : e \notin Range(a4Exports))
    IN  (IF LineCount(a3Content) # LineCount(a4Content)
         THEN <<[type |-> "CONTENT_DIFF", severity |-> "minor", path |-> path,
                 description |-> "Line count differs"]>>
         ELSE <<>>)
        \o [i \in 1..Len(onlyA3) |->
              [type |-> "CONTENT_DIFF", severity |-> "major", path |-> path,
               description |-> <<"Export", onlyA3[i], "exists in A3 but not in A4">>]]

\* compareContent of the Diff Builder (basic line diff)
compareContentBasic(a3Content, a4Content, path) ==
    LET a3Lines == LineCount(a3Content)
        a4Lines == LineCount(a4Content)
        a3Exports == extractExports(a3Content)
        a4Exports == extractExports(a4Content)
        lineDiff ==
            IF a3Lines # a4Lines
            THEN <<[type |-> "CONTENT_DIFF", severity |-> "minor", path |-> path,
                    description |-> "Line count differs",
                    a3Value |-> <<a3Lines, "lines">>,
                    a4Value |-> <<a4Lines, "lines">>]>>
            ELSE <<>>
        onlyA3 == SelectSeq(a3Exports, LAMBDA e : e \notin Range(a4Exports))
        onlyA4 == SelectSeq(a4Exports, LAMBDA e : e \notin Range(a3Exports))
    IN  lineDiff
        \o [i \in 1..Len(onlyA3) |->
              [type |-> "CONTENT_DIFF", severity |-> "major", path |-> path,
               description |-> <<"Export", onlyA3[i], "exists in A3 but not in A4">>]]
        \o [i \in 1..Len(onlyA4) |->
              [type |-> "CONTENT_DIFF", severity |-> "major", path |-> path,
               description |-> <<"Export", onlyA4[i], "exists in A4 but not in A3">>]]

\* compareMetadata that also reports a differing durationMs
CompareMetadataWithDuration(a3Meta, a4Meta) ==
    (IF a3Meta.version # a4Meta.version
     THEN <<[type |-> "CONTENT_DIFF", severity |-> "info", path |-> "metadata.version",
             description |-> "Generator versions differ",
             a3Value |-> a3Meta.version, a4Value |-> a4Meta.version]>>
     ELSE <<>>)
    \o
    (IF a3Meta.durationMs # a4Meta.durationMs
     THEN <<[type |-> "CONTENT_DIFF", severity |-> "info", path |-> "metadata.durationMs",
             description |-> "Durations differ",
             a3Value |-> "a3", a4Value |-> "a4"]>>
     ELSE <<>>)
    \o
    (IF a3Meta.manifestHash # a4Meta.manifestHash
     THEN <<[type |-> "HASH_MISMATCH", severity |-> "major",
             path |-> "metadata.manifestHash",
             description |-> "Manifest hashes differ - inputs may be different",
             a3Value |-> a3Meta.manifestHash, a4Value |-> a4Meta.manifestHash]>>
     ELSE <<>>)

compareMetadata(a3Meta, a4Meta) ==
    (IF a3Meta.version # a4Meta.version
     THEN <<[type |-> "CONTENT_DIFF", severity |-> "info", path |-> "metadata.version",
             description |-> "Generator versions differ",
             a3Value |-> a3Meta.version, a4Value |-> a4Meta.version]>>
     ELSE <<>>)
    \o
    (IF a3Meta.generator # a4Meta.generator
     THEN <<[type |-> "CONTENT_DIFF", severity |-> "info", path |-> "metadata.generator",
             description |-> "Generators differ (expected)",
             a3Value |-> IF a3Meta.generator = Undefined THEN "a3-primary"
                         ELSE a3Meta.generator,
             a4Value |-> IF a4Meta.generator = Undefined THEN "a4-dual"
                         ELSE a4Meta.generator]>>
     ELSE <<>>)
    \o
    (IF a3Meta.manifestHash # a4Meta.manifestHash
     THEN <<[type |-> "HASH_MISMATCH", severity |-> "major",
             path |-> "metadata.manifestHash",
             description |-> "Manifest hashes differ - inputs may be different",
             a3Value |-> a3Meta.manifestHash, a4Value |-> a4Meta.manifestHash]>>
     ELSE <<>>)

\* the mismatches of one file of A3 against the file of A4 at the same path
MatchingFileMismatches(a3File, a4Files) ==
    LET at == FindFile(a4Files, a3File.path)
    IN  IF at = 0 THEN <<>>
        ELSE IF a3File.hash # a4Files[at].hash
        THEN <<[type |-> "HASH_MISMATCH", severity |-> "major", path |-> a3File.path,
                description |-> "File hashes differ",
                a3Value |-> a3File.hash, a4Value |-> a4Files[at].hash]>>
             \o compareContentBasic(a3File.content, a4Files[at].content, a3File.path)
        ELSE <<>>

\* the MISSING_FILE entries: paths of A3 that A4 lacks
MissingFiles(a3Paths, a4Paths) ==
    LET gone == SelectSeq(a3Paths, LAMBDA p : p \notin Range(a4Paths))
    IN  [i \in 1..Len(gone) |->
          [type |-> "MISSING_FILE", severity |-> "critical", path |-> gone[i],
           description |-> "File exists in A3 but missing in A4",
           a3Value |-> "present", a4Value |-> "missing"]]

\* ExtraFiles with the negation of the membership test lost
ExtraFilesNoNegation(a3Paths, a4Paths) ==
    LET added == SelectSeq(a4Paths, LAMBDA p : p \in Range(a3Paths))
    IN  [i \in 1..Len(added) |->
          [type |-> "EXTRA_FILE", severity |-> "critical", path |-> added[i],
           description |-> "File exists in A4 but missing in A3",
           a3Value |-> "missing", a4Value |-> "present"]]

\* ExtraFiles graded major instead of critical
ExtraFilesMajor(a3Paths, a4Paths) ==
    LET added == SelectSeq(a4Paths, LAMBDA p : p \notin Range(a3Paths))
    IN  [i \in 1..Len(added) |->
          [type |-> "EXTRA_FILE", severity |-> "major", path |-> added[i],
           description |-> "File exists in A4 but missing in A3",
           a3Value |-> "missing", a4Value |-> "present"]]

\* the EXTRA_FILE entries: paths of A4 that A3 lacks
ExtraFiles(a3Paths, a4Paths) ==
    LET added == SelectSeq(a4Paths, LAMBDA p : p \notin Range(a3Paths))
    IN  [i \in 1..Len(added) |->
          [type |-> "EXTRA_FILE", severity |-> "critical", path |-> added[i],
           description |-> "File exists in A4 but missing in A3",
           a3Value |-> "missing", a4Value |-> "present"]]

\* CountSeverity that tells only whether there is a mismatch of the severity
CountSeverityAny(mismatches, sev) ==
    IF \E i \in 1..Len(mismatches) : mismatches[i].severity = sev THEN 1 ELSE 0

\* mismatches.filter(m => m.severity === sev).length
CountSeverity(mismatches, sev) ==
    Cardinality({i \in 1..Len(mismatches) : mismatches[i].severity = sev})

buildDiff(a3, a4, now) ==
    LET a3Paths == PathSet(a3.files)
        a4Paths == PathSet(a4.files)
        mismatches ==
            MissingFiles(a3Paths, a4Paths)
            \o ExtraFiles(a3Paths, a4Paths)
            \o FlattenSeq([i \in 1..Len(a3.files) |->
                             MatchingFileMismatches(a3.files[i], a4.files)])
            \o compareMetadata(a3.metadata, a4.metadata)
        summary ==
            [filesMatch |-> /\ \A p \in Range(a3Paths) : p \in Range(a4Paths)
                            /\ \A p \in Range(a4Paths) : p \in Range(a3Paths),
             hashMatch |-> a3.hash = a4.hash,
             criticalCount |-> CountSeverity(mismatches, "critical"),
             majorCount |-> CountSeverity(mismatches, "major"),
             minorCount |-> CountSeverity(mismatches, "minor"),
             infoCount |-> CountSeverity(mismatches, "info")]
    IN  [done |-> TRUE,
         timestamp |-> now,
         a3Hash |-> a3.hash,
         a4Hash |-> a4.hash,
         totalDiffs |-> Len(mismatches),
         mismatches |-> mismatches,
         summary |-> summary]

\* ReportVerdict that also wants the bundle hashes to match for a MATCH
ReportVerdictNeedsHashMatch(summary) ==
    IF summary.criticalCount = 0 /\ summary.majorCount = 0 /\ summary.hashMatch
    THEN "MATCH"
    ELSE IF summary.criticalCount > 0 THEN "MISMATCH"
    ELSE "PARTIAL_MATCH"

\* the verdict expression of generateDiffReport
ReportVerdict(summary) ==
    IF summary.criticalCount = 0 /\ summary.majorCount = 0 THEN "MATCH"
    ELSE IF summary.criticalCount > 0 THEN "MISMATCH"
    ELSE "PARTIAL_MATCH"

generateDiffReport(result) ==
    [done |-> TRUE,
     version |-> "1.0.0",
     generator |-> "a5-adjudicator",
     timestamp |-> result.timestamp,
     a3Hash |-> result.a3Hash,
     a4Hash |-> result.a4Hash,
     totalDiffs |-> result.totalDiffs,
     mismatches |-> result.mismatches,
     summary |-> result.summary,
     verdict |-> ReportVerdict(result.summary)]

----------------------------------------------------------------------------
(* Adjudicator: compareContent, compare, adjudicate *)

\* c.slice(0, 100) + (c.length > 100 ? '...' : '')
MaxExcerpt == 100

Excerpt(c) ==
    IF Len(c) > MaxExcerpt THEN SubSeq(c, 1, MaxExcerpt) \o <<".", ".", ".">> ELSE c

\* options?.ignoreWhitespace
IgnoreWhitespace(opts) == opts.present /\ opts.ignoreWhitespace

\* options?.ignoreComments
IgnoreComments(opts) == opts.present /\ opts.ignoreComments

\* compareContent of the Adjudicator (semantic comparison)
compareContent(a3Content, a4Content, path, opts) ==
    LET w1 == IF IgnoreWhitespace(opts) THEN normalizeWhitespace(a3Content)
              ELSE a3Content
        w2 == IF IgnoreWhitespace(opts) THEN normalizeWhitespace(a4Content)
              ELSE a4Content
        c1 == IF IgnoreComments(opts) THEN removeComments(w1) ELSE w1
        c2 == IF IgnoreComments(opts) THEN removeComments(w2) ELSE w2
    IN  IF c1 # c2
        THEN <<[path |-> path, type |-> "CONTENT_DIFF", severity |-> "major",
                description |-> "File content differs between A3 and A4",
                a3Value |-> Excerpt(c1), a4Value |-> Excerpt(c2)]>>
        ELSE <<>>

\* MatchingFileDiffs that compares the contents whatever the file hashes say
MatchingFileDiffsOfContents(a3File, a4Files, opts) ==
    LET at == FindFile(a4Files, a3File.path)
    IN  IF at = 0 THEN <<>>
        ELSE compareContent(a3File.content, a4Files[at].content, a3File.path, opts)

\* the diffs of one file of A3 against the file of A4 at the same path
MatchingFileDiffs(a3File, a4Files, opts) ==
    LET at == FindFile(a4Files, a3File.path)
    IN  IF at = 0 THEN <<>>
        ELSE IF a3File.hash # a4Files[at].hash
        THEN compareContent(a3File.content, a4Files[at].content, a3File.path, opts)
        ELSE <<>>

compare(a3, a4, opts) ==
    LET a3Paths == PathSet(a3.files)
        a4Paths == PathSet(a4.files)
    IN  MissingFiles(a3Paths, a4Paths)
        \o ExtraFiles(a3Paths, a4Paths)
        \o FlattenSeq([i \in 1..Len(a3.files) |->
                         MatchingFileDiffs(a3.files[i], a4.files, opts)])

\* confidence is kept in hundredths: 1.0 = 100, 0.95 = 95, 0.8 = 80, 0.9 = 90
generateSummary(v, diffs) ==
    CASE v = "MATCH" ->
            IF Len(diffs) = 0 THEN <<"A3 and A4 outputs are identical.">>
            ELSE <<"A3 and A4 outputs are semantically equivalent", Len(diffs)>>
      [] v = "MISMATCH" -> <<"A3 and A4 outputs differ significantly.", Len(diffs)>>
      [] v = "PARTIAL_MATCH" -> <<"A3 and A4 outputs partially match.", Len(diffs)>>
      [] v = "ERROR" -> <<"Comparison could not be completed due to an error.">>
      [] v = "INCONCLUSIVE" -> <<"Could not determine semantic equivalence.">>
      [] OTHER -> <<"Unknown verdict.">>

\* Classify with the major test placed before the critical test
ClassifyMajorFirst(diffs) ==
    LET criticalDiffs == SelectSeq(diffs, LAMBDA d : d.severity = "critical")
        majorDiffs == SelectSeq(diffs, LAMBDA d : d.severity = "major")
    IN  IF Len(diffs) = 0 THEN <<"MATCH", TRUE, 100>>
        ELSE IF Len(majorDiffs) > 0 THEN <<"PARTIAL_MATCH", FALSE, 80>>
        ELSE IF Len(criticalDiffs) > 0 THEN <<"MISMATCH", FALSE, 95>>
        ELSE <<"MATCH", TRUE, 90>>

\* the if-chain of adjudicate: <<verdict, semanticallyEquivalent, confidence>>
Classify(diffs) ==
    LET criticalDiffs == SelectSeq(diffs, LAMBDA d : d.severity = "critical")
        majorDiffs == SelectSeq(diffs, LAMBDA d : d.severity = "major")
    IN  IF Len(diffs) = 0 THEN <<"MATCH", TRUE, 100>>
        ELSE IF Len(criticalDiffs) > 0 THEN <<"MISMATCH", FALSE, 95>>
        ELSE IF Len(majorDiffs) > 0 THEN <<"PARTIAL_MATCH", FALSE, 80>>
        ELSE <<"MATCH", TRUE, 90>>

adjudicate(a3, a4, opts, now) ==
    LET diffs == compare(a3, a4, opts)
        c == Classify(diffs)
    IN  [done |-> TRUE,
         verdict |-> c[1],
         confidence |-> c[3],
         semanticallyEquivalent |-> c[2],
         diffs |-> diffs,
         summary |-> generateSummary(c[1], diffs),
         timestamp |-> now]

----------------------------------------------------------------------------
(* JavaScript values of the manifest objects *)

\* A value is a record of its kind, its text (the String() form of a scalar)
\* and its items (the elements of an array, the entries of an object in
\* insertion order).  A number is written as the text String() gives it.
JsString(s) == [kind |-> "string", text |-> s, items |-> <<>>]

JsNumber(t) == [kind |-> "number", text |-> t, items |-> <<>>]

JsBoolean(b) == [kind |-> "boolean", text |-> IF b THEN "true" ELSE "false", items |-> <<>>]

JsArray(items) == [kind |-> "array", text |-> "", items |-> items]

JsObject(entries) == [kind |-> "object", text |-> "", items |-> entries]

JsUndefined == [kind |-> "undefined", text |-> "", items |-> <<>>]

Entry(k, v) == [key |-> k, value |-> v]

\* ToBoolean: '', 0, false and undefined are falsy, arrays and objects truthy
Truthy(v) ==
    CASE v.kind = "string" -> v.text # ""
      [] v.kind = "number" -> v.text # "0"
      [] v.kind = "boolean" -> v.text = "true"
      [] v.kind = "undefined" -> FALSE
      [] OTHER -> TRUE

\* v || d
Or(v, d) == IF Truthy(v) THEN v ELSE d

\* v ?? d
Nullish(v, d) == IF v.kind = "undefined" THEN d ELSE v

\* Array.isArray(v) ? v : d
ArrayOr(v, d) == IF v.kind = "array" THEN v ELSE d

\* obj?.key
Get(obj, key) ==
    IF obj.kind # "object" THEN JsUndefined
    ELSE LET hits == {i \in 1..Len(obj.items) : obj.items[i].key = key}
         IN  IF hits = {} THEN JsUndefined ELSE obj.items[Max(hits)].value

\* obj[key] = v
Put(obj, key, v) ==
    IF \E i \in 1..Len(obj.items) : obj.items[i].key = key
    THEN JsObject([i \in 1..Len(obj.items) |->
                      IF obj.items[i].key = key THEN Entry(key, v) ELSE obj.items[i]])
    ELSE JsObject(Append(obj.items, Entry(key, v)))

Strings(names) == JsArray([i \in 1..Len(names) |-> JsString(names[i])])

\* ss[1] sep ss[2] sep ... : Array.prototype.join on texts
Join(ss, sep) ==
    FlattenSeq([i \in 1..Len(ss) |-> IF i = 1 THEN ss[i] ELSE sep \o ss[i]])

\* JSON.stringify: entries in insertion order, undefined entries left out
RECURSIVE JSONStringify(_)
JSONStringify(value) ==
    CASE value.kind = "string" -> <<"\"", value.text, "\"">>
      [] value.kind \in {"number", "boolean"} -> <<value.text>>
      [] value.kind = "undefined" -> <<"null">>
      [] value.kind = "array" ->
            <<"[">>
            \o Join([i \in 1..Len(value.items) |-> JSONStringify(value.items[i])], <<",">>)
            \o <<"]">>
      [] OTHER ->
            LET defined == SelectSeq(value.items, LAMBDA e : e.value.kind # "undefined")
            IN  <<"{">>
                \o Join([i \in 1..Len(defined) |->
                            <<"\"", defined[i].key, "\"", ":">>
                            \o JSONStringify(defined[i].value)], <<",">>)
                \o <<"}">>

----------------------------------------------------------------------------
(* Manifest documents *)

\* A document is the sequence of its lines.  A line is "key: value" at an
\* indentation (value "" for a section or list header, quoted when the value
\* is written in quotes) or a list item "- value", whose key is "-".  The
\* documents of the model have no comment lines, no blank lines and no keys
\* nested deeper than one level.
Line(indent, key, value, quoted) ==
    [indent |-> indent, key |-> key, value |-> value, quoted |-> quoted]

Item(value) == Line(4, "-", value, FALSE)

\* the decimal literals written in the documents
NumberTexts ==
    {"0", "0.2", "0.25", "0.3", "0.30", "0.31", "0.4", "0.5", "0.6", "0.7", "0.75",
     "0.8", "0.9", "1.0", "1.5", "30", "90"}

\* String(parseFloat(t)) for the literals of NumberTexts
parseFloat(t) ==
    CASE t = "0.30" -> "0.3"
      [] t = "1.0" -> "1"
      [] OTHER -> t

\* the first of the indices hits, 0 if there is none: where a pattern matches
First(hits) == IF hits = {} THEN 0 ELSE Min(hits)

----------------------------------------------------------------------------
(* Manifest Parser: parseYaml, parseValue, normalizeManifest *)

parseValue(value, quoted) ==
    IF quoted THEN JsString(value)
    ELSE IF value = "true" THEN JsBoolean(TRUE)
    ELSE IF value = "false" THEN JsBoolean(FALSE)
    ELSE IF value \in NumberTexts THEN JsNumber(parseFloat(value))
    ELSE JsString(value)

\* parseValue on a text given symbol by symbol: a run of letters is one
\* symbol, every other character is a symbol of its own.  A number is kept as
\* the literal it was read from.
parseValueText(text) ==
    LET commentIndex == First({k \in 1..Len(text) : text[k] = "#"})
        cleanValue == IF commentIndex > 1 THEN Trim(SubSeq(text, 1, commentIndex - 1))
                      ELSE text
        n == Len(cleanValue)
        Wrapped(q) == n >= 1 /\ cleanValue[1] = q /\ cleanValue[n] = q
        Digit(c) == c \in {"0", "1", "2", "3", "4", "5", "6", "7", "8", "9"}
        \* /^-?\d*\.?\d+$/
        unsigned == IF n >= 1 /\ cleanValue[1] = "-" THEN Tail(cleanValue) ELSE cleanValue
        dots == {k \in 1..Len(unsigned) : unsigned[k] = "."}
        matches ==
            /\ Len(unsigned) >= 1
            /\ \A k \in 1..Len(unsigned) : Digit(unsigned[k]) \/ unsigned[k] = "."
            /\ Cardinality(dots) <= 1
            /\ Digit(unsigned[Len(unsigned)])
    IN  IF Wrapped("\"") \/ Wrapped("'") THEN JsString(SubSeq(cleanValue, 2, n - 1))
        ELSE IF cleanValue = <<"true">> THEN JsBoolean(TRUE)
        ELSE IF cleanValue = <<"false">> THEN JsBoolean(FALSE)
        ELSE IF matches THEN JsNumber(cleanValue)
        ELSE JsString(cleanValue)

\* the loop variables of parseYaml before the first line; "" stands for null.
\* currentList is the array at currentListKey in the current section, or in
\* its subsection currentListIn when that is not "".  An array that result no
\* longer holds takes pushes nobody sees: currentListKey is then "".
ParseStart ==
    [result |-> JsObject(<<>>), currentSection |-> "", currentSubSection |-> "",
     currentListKey |-> "", currentListIn |-> "", line |-> 1]

\* one pass of the loop body of parseYaml
ParseLine(st, line) ==
    IF line.indent = 0 /\ line.key # "-"
    THEN IF line.value # ""
         THEN [st EXCEPT !.result = Put(st.result, line.key, parseValue(line.value, line.quoted)),
                         !.currentListKey = "",
                         !.currentListIn = ""]
         ELSE [st EXCEPT !.result = Put(st.result, line.key, JsObject(<<>>)),
                         !.currentSection = line.key,
                         !.currentSubSection = "",
                         !.currentListKey = "",
                         !.currentListIn = ""]
    ELSE IF st.currentSection # "" /\ line.indent >= 2
    THEN LET section == Get(st.result, st.currentSection)
         IN  IF line.key = "-"
             THEN IF st.currentListKey # ""
                  THEN LET owner == IF st.currentListIn = "" THEN section
                                    ELSE Get(section, st.currentListIn)
                           list == Get(owner, st.currentListKey)
                           pushed == JsArray(Append(list.items, parseValue(line.value, line.quoted)))
                           held == Put(owner, st.currentListKey, pushed)
                       IN  [st EXCEPT !.result =
                               Put(st.result, st.currentSection,
                                   IF st.currentListIn = "" THEN held
                                   ELSE Put(section, st.currentListIn, held))]
                  ELSE st
             ELSE IF line.indent <= 2
             THEN IF line.value # ""
                  THEN [st EXCEPT !.result =
                               Put(st.result, st.currentSection,
                                   Put(section, line.key, parseValue(line.value, line.quoted))),
                           !.currentSubSection = line.key,
                           !.currentListKey = "",
                           !.currentListIn = ""]
                  ELSE [st EXCEPT !.result =
                               Put(st.result, st.currentSection,
                                   Put(section, line.key, JsArray(<<>>))),
                           !.currentSubSection = line.key,
                           !.currentListKey = line.key,
                           !.currentListIn = ""]
             ELSE IF st.currentSubSection # ""
             THEN LET sub == Get(section, st.currentSubSection)
                      \* an array or a scalar at the subsection gives way to {}
                      kept == IF sub.kind = "object" THEN sub ELSE JsObject(<<>>)
                      \* currentList was the array replaced, or is the array
                      \* at the key a value is now stored at
                      lost == \/ /\ sub.kind # "object"
                                 /\ st.currentListIn = ""
                                 /\ st.currentListKey = st.currentSubSection
                              \/ /\ line.value # ""
                                 /\ st.currentListIn = st.currentSubSection
                                 /\ st.currentListKey = line.key
                  IN  IF line.value # ""
                      THEN [st EXCEPT !.result =
                               Put(st.result, st.currentSection,
                                   Put(section, st.currentSubSection,
                                       Put(kept, line.key,
                                           parseValue(line.value, line.quoted)))),
                               !.currentListKey = IF lost THEN "" ELSE st.currentListKey,
                               !.currentListIn = IF lost THEN "" ELSE st.currentListIn]
                      ELSE [st EXCEPT !.result =
                               Put(st.result, st.currentSection,
                                   Put(section, st.currentSubSection,
                                       Put(kept, line.key, JsArray(<<>>)))),
                               !.currentListKey = line.key,
                               !.currentListIn = st.currentSubSection]
             ELSE st
    ELSE st

\* for (const line of lines), from the line st.line up to the line last
RECURSIVE ParseUpTo(_, _, _)
ParseUpTo(st, lines, last) ==
    IF st.line > last THEN st
    ELSE ParseUpTo([ParseLine(st, lines[st.line]) EXCEPT !.line = st.line + 1],
                   lines, last)

\* for (const line of lines), taken six lines at a time
RECURSIVE ParseLines(_, _)
ParseLines(st, lines) ==
    IF st.line > Len(lines) THEN st
    ELSE ParseLines(ParseUpTo(st, lines, Min({st.line + 5, Len(lines)})), lines)

\* the metrics that are objects (or arrays), each with its three fields
normalizeMetrics(metrics) ==
    IF metrics.kind # "object" THEN JsObject(<<>>)
    ELSE LET objects == SelectSeq(metrics.items,
                                  LAMBDA e : e.value.kind \in {"object", "array"})
         IN  JsObject([i \in 1..Len(objects) |->
                 Entry(objects[i].key, JsObject(<<
                     Entry("description",
                           Or(Get(objects[i].value, "description"), JsString(""))),
                     Entry("weight", Or(Get(objects[i].value, "weight"), JsNumber("0"))),
                     Entry("sources",
                           ArrayOr(Get(objects[i].value, "sources"), JsArray(<<>>))) >>))])

normalizeManifest(raw) ==
    LET project == Get(raw, "project")
        thresholds == Get(raw, "thresholds")
        weights == Get(raw, "weights")
        diamond == Get(raw, "diamond_hands")
        thunder == Get(raw, "thunder_strike")
        evidence == Get(raw, "evidence")
        ci == Get(raw, "ci")
    IN  JsObject(<<
          Entry("version", Or(Get(raw, "version"), JsString("2.0.0"))),
          Entry("project", JsObject(<<
              Entry("name", Or(Get(project, "name"), JsString("Unknown"))),
              Entry("description", Or(Get(project, "description"), JsString(""))),
              Entry("repository", Or(Get(project, "repository"), JsString(""))) >>)),
          Entry("thresholds", JsObject(<<
              Entry("critical", Or(Get(thresholds, "critical"), JsNumber("0.3"))),
              Entry("low", Or(Get(thresholds, "low"), JsNumber("0.5"))),
              Entry("nominal", Or(Get(thresholds, "nominal"), JsNumber("0.7"))),
              Entry("optimal", Or(Get(thresholds, "optimal"), JsNumber("0.9"))) >>)),
          Entry("weights", JsObject(<<
              Entry("A3_governance", Or(Get(weights, "A3_governance"), JsNumber("0.3"))),
              Entry("A4_architecture", Or(Get(weights, "A4_architecture"), JsNumber("0.25"))),
              Entry("A5_implementation", Or(Get(weights, "A5_implementation"), JsNumber("0.25"))),
              Entry("validation", Or(Get(weights, "validation"), JsNumber("0.2"))) >>)),
          Entry("diamond_hands", JsObject(<<
              Entry("threshold", Or(Get(diamond, "threshold"), JsNumber("0.7"))),
              Entry("required_validation_score",
                    Or(Get(diamond, "required_validation_score"), JsNumber("0.8"))),
              Entry("approval_required",
                    Nullish(Get(diamond, "approval_required"), JsBoolean(TRUE))),
              Entry("approvers", ArrayOr(Get(diamond, "approvers"), JsArray(<<>>))) >>)),
          Entry("thunder_strike", JsObject(<<
              Entry("validation_levels",
                    ArrayOr(Get(thunder, "validation_levels"),
                            Strings(<<"self_assessment", "peer_review",
                                      "external_validation", "diamond_hands_final">>))),
              Entry("required_for_advancement",
                    ArrayOr(Get(thunder, "required_for_advancement"),
                            Strings(<<"self_assessment", "peer_review",
                                      "external_validation">>))) >>)),
          Entry("metrics", normalizeMetrics(Or(Get(raw, "metrics"), JsObject(<<>>)))),
          Entry("evidence", JsObject(<<
              Entry("output_directory",
                    Or(Get(evidence, "output_directory"), JsString("evidence/A7-bundle"))),
              Entry("formats",
                    ArrayOr(Get(evidence, "formats"), Strings(<<"json", "yaml", "markdown">>))),
              Entry("retention_days", Or(Get(evidence, "retention_days"), JsNumber("90"))),
              Entry("required_artifacts",
                    ArrayOr(Get(evidence, "required_artifacts"),
                            Strings(<<"frequency_report", "validation_logs",
                                      "component_metrics", "decision_record">>))) >>)),
          Entry("ci", JsObject(<<
              Entry("trigger_on", ArrayOr(Get(ci, "trigger_on"), Strings(<<"push", "pull_request">>))),
              Entry("schedule", Or(Get(ci, "schedule"), JsString("0 */6 * * *"))),
              Entry("jobs", Or(Get(ci, "jobs"), JsObject(<<>>))) >>)),
          Entry("notifications", Get(raw, "notifications")),
          Entry("roles", Get(raw, "roles")) >>)

parseYaml(content) == normalizeManifest(ParseLines(ParseStart, content).result)

----------------------------------------------------------------------------
(* Generator B: parseManifestRegex and its extract functions *)

\* /\n\w+:/ matches before a line that starts with a key
TopLevelKey(l) == l.indent = 0 /\ l.key # "-"

\* /\n\s*\w+:/ matches before a line that holds a key at any indentation
AnyKey(l) == l.key # "-"

\* whether the lookahead that ends a list stops before line l: stop is "key"
\* for (?=\n\s*\w+:|$), "sub" for (?=\n\s{2}\w+:|$), which wants a key after
\* exactly two blanks, and "top" for (?=\n\w|\n\n|$)
Stops(l, stop) ==
    CASE stop = "key" -> AnyKey(l)
      [] stop = "sub" -> l.indent = 2 /\ l.key # "-"
      [] OTHER -> TopLevelKey(l)

\* /key:\s*([\d.]+)/ matches at a line "key: <decimal literal>"
NumericLine(l, key) == l.key = key /\ ~l.quoted /\ l.value \in NumberTexts

\* /key:\s*["']?([^"'\n]+)["']?/ matches at a line "key: <text>"
TextLine(l, key) == l.key = key /\ l.value # ""

\* the lines after the first line with key anchor (/anchor:[\s\S]*?/); the
\* whole content when there is no anchor in the pattern
After(content, anchor) ==
    IF anchor = "" THEN content
    ELSE LET i == First({k \in 1..Len(content) : content[k].key = anchor})
         IN  IF i = 0 THEN <<>> ELSE From(content, i + 1)

\* the lines of s before the first one that the lookahead stops at
Until(s, stop) ==
    LET j == First({k \in 1..Len(s) : Stops(s[k], stop)})
    IN  IF j = 0 THEN s ELSE SubSeq(s, 1, j - 1)

\* content.match(/section:[\s\S]*?(?=\n\w+:|$)/): the lines of the match,
\* <<>> when there is none
SectionMatch(content, section) ==
    LET i == First({k \in 1..Len(content) : content[k].key = section})
    IN  IF i = 0 THEN <<>>
        ELSE <<content[i]>> \o Until(From(content, i + 1), "top")

extractSection(content, section, keys) ==
    LET sectionContent == SectionMatch(content, section)
    IN  IF Len(sectionContent) = 0 THEN JsObject(<<>>)
        ELSE JsObject([k \in 1..Len(keys) |->
                 LET i == First({n \in 1..Len(sectionContent) :
                                   TextLine(sectionContent[n], keys[k])})
                 IN  Entry(keys[k], IF i = 0 THEN JsString("")
                                    ELSE JsString(sectionContent[i].value))])

extractNumericSection(content, section, keys) ==
    LET sectionContent == SectionMatch(content, section)
    IN  IF Len(sectionContent) = 0 THEN JsObject(<<>>)
        ELSE JsObject([k \in 1..Len(keys) |->
                 LET i == First({n \in 1..Len(sectionContent) :
                                   NumericLine(sectionContent[n], keys[k])})
                 IN  Entry(keys[k], IF i = 0 THEN JsNumber("0")
                                    ELSE JsNumber(parseFloat(sectionContent[i].value)))])

\* extractNumber(content, /anchor:[\s\S]*?key:\s*([\d.]+)/)
extractNumber(content, anchor, key) ==
    LET rest == After(content, anchor)
        i == First({k \in 1..Len(rest) : NumericLine(rest[k], key)})
    IN  IF i = 0 THEN JsNumber("0") ELSE JsNumber(parseFloat(rest[i].value))

\* extractString(content, /anchor:[\s\S]*?key:\s*["']?([^"'\n]+)["']?/)
extractString(content, anchor, key) ==
    LET rest == After(content, anchor)
        i == First({k \in 1..Len(rest) : TextLine(rest[k], key)})
    IN  IF i = 0 THEN JsString("") ELSE JsString(rest[i].value)

\* extractList(content, /anchor:[\s\S]*?key:([\s\S]*?)(?=<stop>|$)/): the
\* items "- value" between the key and the first line the lookahead stops at
extractList(content, anchor, key, stop) ==
    LET rest == After(content, anchor)
        i == First({k \in 1..Len(rest) : rest[k].key = key})
    IN  IF i = 0 THEN JsArray(<<>>)
        ELSE LET listContent == Until(From(rest, i + 1), stop)
                 items == SelectSeq(listContent, LAMBDA l : l.key = "-" /\ l.value # "")
             IN  JsArray([k \in 1..Len(items) |-> JsString(items[k].value)])

\* the section runs from the first "metrics:" up to a line "evidence:" or to
\* the end; of the five names, those found in it as a key, each with the
\* lines up to the next key after two blanks
extractMetrics(content) ==
    LET start == First({k \in 1..Len(content) : content[k].key = "metrics"})
        rest == From(content, start + 1)
        stop == First({k \in 1..Len(rest) : rest[k].indent = 0 /\ rest[k].key = "evidence"})
        metricsSection == IF stop = 0 THEN rest ELSE SubSeq(rest, 1, stop - 1)
        metricNames == <<"coherence", "alignment", "velocity", "stability", "evidence_score">>
        At(name) == First({k \in 1..Len(metricsSection) : metricsSection[k].key = name})
        found == SelectSeq(metricNames, LAMBDA name : At(name) # 0)
        Match(name) ==
            <<metricsSection[At(name)]>> \o Until(From(metricsSection, At(name) + 1), "sub")
    IN  IF start = 0 THEN JsObject(<<>>)
        ELSE JsObject([i \in 1..Len(found) |->
                 Entry(found[i], JsObject(<<
                     Entry("description", extractString(Match(found[i]), "", "description")),
                     Entry("weight", extractNumber(Match(found[i]), "", "weight")),
                     Entry("sources",
                           extractList(Match(found[i]), "", "sources", "sub")) >>))])

parseManifestRegex(content) ==
    LET versionMatch ==
            First({k \in 1..Len(content) :
                      content[k].indent = 0 /\ TextLine(content[k], "version")})
    IN  JsObject(<<
          Entry("version", IF versionMatch = 0 THEN JsString("2.0.0")
                           ELSE JsString(content[versionMatch].value)),
          Entry("project",
                extractSection(content, "project", <<"name", "description", "repository">>)),
          Entry("thresholds",
                extractNumericSection(content, "thresholds",
                                      <<"critical", "low", "nominal", "optimal">>)),
          Entry("weights",
                extractNumericSection(content, "weights",
                                      <<"A3_governance", "A4_architecture",
                                        "A5_implementation", "validation">>)),
          Entry("diamond_hands", JsObject(<<
              Entry("threshold", extractNumber(content, "diamond_hands", "threshold")),
              Entry("required_validation_score",
                    extractNumber(content, "diamond_hands", "required_validation_score")),
              Entry("approval_required",
                    JsBoolean(\E i \in 1..Len(content) :
                                 /\ content[i].key = "approval_required"
                                 /\ content[i].value = "true"
                                 /\ ~content[i].quoted)),
              Entry("approvers",
                    extractList(content, "diamond_hands", "approvers", "top")) >>)),
          Entry("thunder_strike", JsObject(<<
              Entry("validation_levels", extractList(content, "", "validation_levels", "key")),
              Entry("required_for_advancement",
                    extractList(content, "", "required_for_advancement", "top")) >>)),
          Entry("metrics", extractMetrics(content)),
          Entry("evidence", JsObject(<<
              Entry("output_directory", extractString(content, "evidence", "output_directory")),
              Entry("formats", extractList(content, "evidence", "formats", "key")),
              Entry("retention_days", extractNumber(content, "", "retention_days")),
              Entry("required_artifacts",
                    extractList(content, "", "required_artifacts", "top")) >>)),
          Entry("ci", JsObject(<<
              Entry("trigger_on", extractList(content, "", "trigger_on", "key")),
              Entry("schedule", Or(extractString(content, "", "schedule"), JsString("0 */6 * * *"))),
              Entry("jobs", JsObject(<<>>)) >>)) >>)

----------------------------------------------------------------------------
(* Generator B: AST nodes and their serialization *)

\* Generated text is a sequence of symbols; a symbol is a piece of text that
\* the generator emits as a whole (a literal of a template, a name, a value).
VERSION == "1.0.0"

GENERATOR == "a4-dual-ast"

Node(kind, name, type, value, text, properties) ==
    [kind |-> kind, name |-> name, type |-> type, value |-> value,
     text |-> text, properties |-> properties]

createTypeAlias(name, value) == Node("type-alias", name, "", JsUndefined, value, <<>>)

createInterface(name, properties) == Node("interface", name, "", JsUndefined, <<>>, properties)

createConstant(name, type, value) == Node("constant", name, type, value, <<>>, <<>>)

\* params and returnType are fixed texts of the source, kept as one symbol
createFunction(name, params, returnType, body) ==
    Node("function", name, returnType, JsUndefined, body, <<params>>)

\* '  '.repeat(indent)
Spaces(indent) == [i \in 1..indent |-> "  "]

RECURSIVE serializeValue(_, _)
serializeValue(value, indent) ==
    CASE value.kind = "undefined" -> <<"null">>
      [] value.kind = "string" -> <<"'", value.text, "'">>
      [] value.kind \in {"number", "boolean"} -> <<value.text>>
      [] value.kind = "array" ->
            IF Len(value.items) = 0 THEN <<"[]">>
            ELSE <<"[", "\n">> \o Spaces(indent) \o <<"  ">>
                 \o Join([i \in 1..Len(value.items) |->
                             serializeValue(value.items[i], indent + 1)],
                         <<",", "\n">> \o Spaces(indent) \o <<"  ">>)
                 \o <<"\n">> \o Spaces(indent) \o <<"]">>
      [] OTHER ->
            IF Len(value.items) = 0 THEN <<"{}">>
            ELSE <<"{", "\n">>
                 \o Join([i \in 1..Len(value.items) |->
                             Spaces(indent) \o <<"  ", value.items[i].key, ":", " ">>
                             \o serializeValue(value.items[i].value, indent + 1)],
                         <<",", "\n">>)
                 \o <<"\n">> \o Spaces(indent) \o <<"}">>

serializeNode(node) ==
    CASE node.kind = "type-alias" ->
            <<"export type ", node.name, " = ">> \o node.text \o <<";">>
      [] node.kind = "interface" ->
            <<"export interface ", node.name, " {\n">>
            \o Join([i \in 1..Len(node.properties) |->
                        <<"  ", node.properties[i][1], ": ", node.properties[i][2], ";">>],
                    <<"\n">>)
            \o <<"\n}">>
      [] node.kind = "constant" ->
            <<"export const ", node.name>>
            \o (IF node.type # "" THEN <<": ", node.type>> ELSE <<>>)
            \o <<" = ">> \o serializeValue(node.value, 0) \o <<" as const", ";">>
      [] node.kind = "function" ->
            <<"export function ", node.name, "(", node.properties[1], "): ", node.type, " {\n  ">>
            \o node.text \o <<"\n}">>
      [] OTHER -> <<>>

\* the loop "output += serializeNode(node) + '\n\n'" of the three serializers
SerializeNodes(ast) ==
    FlattenSeq([i \in 1..Len(ast) |-> serializeNode(ast[i]) \o <<"\n\n">>])

serializeAST(ast, version) ==
    <<"/** Generated Types - Vyberology 2.0, Generated by: ", GENERATOR,
      " Manifest version: ", version, " */\n\n">> \o SerializeNodes(ast)

serializeConstantsAST(ast) ==
    <<"/** Generated Constants - Vyberology 2.0, Generated by: ", GENERATOR, " */\n\n",
      "import type { ... } from './types';\n\n">> \o SerializeNodes(ast)

serializeValidatorsAST(ast) ==
    <<"/** Generated Validators - Vyberology 2.0, Generated by: ", GENERATOR, " */\n\n",
      "import type { ... } from './types';\n",
      "import { ... } from './constants';\n\n">> \o SerializeNodes(ast)

\* sha256(content) in hex cut to 16 digits, taken as free of collisions
generateHash(content) == <<"sha256">> \o content

GeneratedFile(path, content, type) ==
    [path |-> path, content |-> content, hash |-> generateHash(content), type |-> type]

\* `${v}` in a template literal
TemplateText(v) == IF v.kind = "undefined" THEN "undefined" ELSE v.text

\* names.map(n => `'${n}'`).join(' | ')
UnionOf(names) ==
    Join([i \in 1..Len(names.items) |-> <<"'", names.items[i].text, "'">>], <<" | ">>)

----------------------------------------------------------------------------
(* Generator B: the five files *)

DefaultValidationLevels ==
    Strings(<<"self_assessment", "peer_review", "external_validation", "diamond_hands_final">>)

DefaultThresholds ==
    JsObject(<<Entry("critical", JsNumber("0.3")), Entry("low", JsNumber("0.5")),
               Entry("nominal", JsNumber("0.7")), Entry("optimal", JsNumber("0.9"))>>)

DefaultWeights ==
    JsObject(<<Entry("A3_governance", JsNumber("0.3")), Entry("A4_architecture", JsNumber("0.25")),
               Entry("A5_implementation", JsNumber("0.25")), Entry("validation", JsNumber("0.2"))>>)

TypesAST(manifest) ==
    LET validationLevels ==
            Or(Get(Get(manifest, "thunder_strike"), "validation_levels"), DefaultValidationLevels)
        metricNames == Or(Get(manifest, "metrics"), JsObject(<<>>)).items
        metricType ==
            IF Len(metricNames) > 0
            THEN Join([i \in 1..Len(metricNames) |-> <<"'", metricNames[i].key, "'">>], <<" | ">>)
            ELSE <<"'coherence' | 'alignment' | 'velocity' | 'stability' | 'evidence_score'">>
        formats ==
            Or(Get(Get(manifest, "evidence"), "formats"), Strings(<<"json", "yaml", "markdown">>))
        artifacts ==
            Or(Get(Get(manifest, "evidence"), "required_artifacts"),
               Strings(<<"frequency_report", "validation_logs", "component_metrics",
                         "decision_record">>))
    IN  << createTypeAlias("FrequencyBand",
                           <<"'critical' | 'low' | 'nominal' | 'optimal' | 'peak'">>),
           createInterface("FrequencyThresholds",
                           << <<"critical", "number">>, <<"low", "number">>,
                              <<"nominal", "number">>, <<"optimal", "number">> >>),
           createInterface("ComponentWeights",
                           << <<"A3_governance", "number">>, <<"A4_architecture", "number">>,
                              <<"A5_implementation", "number">>, <<"validation", "number">> >>),
           createTypeAlias("ValidationLevel", UnionOf(validationLevels)),
           createTypeAlias("MetricName", metricType),
           createInterface("MetricDefinition",
                           << <<"name", "MetricName">>, <<"description", "string">>,
                              <<"weight", "number">>, <<"sources", "string[]">> >>),
           createTypeAlias("RoleCode",
                           <<"'B-01' | 'B-02' | 'B-03' | 'B-04' | 'B-05' | 'B-06' | 'B-07'">>),
           createInterface("RoleAssignment",
                           << <<"code", "RoleCode">>, <<"name", "string">>,
                              <<"assignee", "string">>,
                              <<"category", "'owner' | 'validator' | 'authority'">> >>),
           createTypeAlias("EvidenceFormat", UnionOf(formats)),
           createTypeAlias("RequiredArtifact", UnionOf(artifacts)),
           createInterface("ProjectConfig",
                           << <<"name", "string">>, <<"description", "string">>,
                              <<"repository", "string">>, <<"version", "string">> >>),
           createTypeAlias("NotificationEvent",
                           <<"'band_change' | 'validation_failed' | 'diamond_hands_ready' | 'critical_frequency' | 'poc_advancement'">>),
           createTypeAlias("NotificationChannel", <<"'slack' | 'email'">>) >>

buildTypesFile(manifest) ==
    GeneratedFile("types.ts",
                  serializeAST(TypesAST(manifest), TemplateText(Get(manifest, "version"))),
                  "types")

ConstantsAST(manifest) ==
    LET thresholds == Or(Get(manifest, "thresholds"), DefaultThresholds)
        weights == Or(Get(manifest, "weights"), DefaultWeights)
        project == Get(manifest, "project")
        thunder == Get(manifest, "thunder_strike")
        diamond == Get(manifest, "diamond_hands")
        evidence == Get(manifest, "evidence")
        ci == Get(manifest, "ci")
    IN  << createConstant("PROJECT", "ProjectConfig", JsObject(<<
               Entry("name", Or(Get(project, "name"), JsString("LUMEN OS"))),
               Entry("description",
                     Or(Get(project, "description"), JsString("Governance + Validation System"))),
               Entry("repository", Or(Get(project, "repository"), JsString(""))),
               Entry("version", Or(Get(manifest, "version"), JsString("2.0.0"))) >>)),
           createConstant("THRESHOLDS", "FrequencyThresholds", thresholds),
           createConstant("WEIGHTS", "ComponentWeights", weights),
           createConstant("VALIDATION_LEVELS", "readonly ValidationLevel[]",
                          Or(Get(thunder, "validation_levels"), DefaultValidationLevels)),
           createConstant("REQUIRED_FOR_ADVANCEMENT", "readonly ValidationLevel[]",
                          Or(Get(thunder, "required_for_advancement"),
                             Strings(<<"self_assessment", "peer_review", "external_validation">>))),
           createConstant("DIAMOND_HANDS", "", JsObject(<<
               Entry("threshold", Or(Get(diamond, "threshold"), JsNumber("0.7"))),
               Entry("requiredValidationScore",
                     Or(Get(diamond, "required_validation_score"), JsNumber("0.8"))),
               Entry("approvalRequired",
                     Nullish(Get(diamond, "approval_required"), JsBoolean(TRUE))),
               Entry("approvers", Or(Get(diamond, "approvers"), JsArray(<<>>))) >>)),
           createConstant("METRICS", "Record<string, MetricDefinition>",
               LET metrics == Or(Get(manifest, "metrics"), JsObject(<<>>)).items
               IN  JsObject([i \in 1..Len(metrics) |->
                       Entry(metrics[i].key, JsObject(<<
                           Entry("name", JsString(metrics[i].key)),
                           Entry("description",
                                 Or(Get(metrics[i].value, "description"), JsString(""))),
                           Entry("weight", Or(Get(metrics[i].value, "weight"), JsNumber("0"))),
                           Entry("sources",
                                 Or(Get(metrics[i].value, "sources"), JsArray(<<>>))) >>))])),
           createConstant("EVIDENCE", "", JsObject(<<
               Entry("outputDirectory",
                     Or(Get(evidence, "output_directory"), JsString("evidence/A7-bundle"))),
               Entry("formats",
                     Or(Get(evidence, "formats"), Strings(<<"json", "yaml", "markdown">>))),
               Entry("retentionDays", Or(Get(evidence, "retention_days"), JsNumber("90"))),
               Entry("requiredArtifacts",
                     Or(Get(evidence, "required_artifacts"), JsArray(<<>>))) >>)),
           createConstant("CI", "", JsObject(<<
               Entry("triggerOn", Or(Get(ci, "trigger_on"), Strings(<<"push", "pull_request">>))),
               Entry("schedule", Or(Get(ci, "schedule"), JsString("0 */6 * * *"))) >>)) >>

buildConstantsFile(manifest) ==
    GeneratedFile("constants.ts", serializeConstantsAST(ConstantsAST(manifest)), "constants")

ValidatorsAST(manifest) ==
    LET thresholds == Or(Get(manifest, "thresholds"), DefaultThresholds)
    IN  << createFunction("classifyFrequency", "fTotal: number", "FrequencyBand",
               <<"if (fTotal < ", TemplateText(Get(thresholds, "critical")),
                 ") return 'critical';\n  if (fTotal < ", TemplateText(Get(thresholds, "low")),
                 ") return 'low';\n  if (fTotal < ", TemplateText(Get(thresholds, "nominal")),
                 ") return 'nominal';\n  if (fTotal < ", TemplateText(Get(thresholds, "optimal")),
                 ") return 'optimal';\n  return 'peak';">>),
           createFunction("isDiamondHandsReady", "fTotal: number, validationScore: number",
               "boolean", <<"return fTotal >= DIAMOND_HANDS.threshold && ...;">>),
           createFunction("isValidationRequired", "level: ValidationLevel", "boolean",
               <<"return (VALIDATION_LEVELS as readonly string[]).includes(level);">>),
           createFunction("isValidMetricValue", "value: number", "boolean",
               <<"return value >= 0 && value <= 1;">>),
           createFunction("validateWeights", "", "boolean",
               <<"const sum = ...; return Math.abs(sum - 1.0) < 0.001;">>),
           createInterface("ComponentMetrics",
               << <<"coherence", "number">>, <<"alignment", "number">>, <<"velocity", "number">>,
                  <<"stability", "number">>, <<"evidenceScore", "number">> >>),
           createFunction("calculateComponentFrequency", "metrics: ComponentMetrics", "number",
               <<"return ( metrics.coherence * 0.25 + ... );">>),
           createFunction("calculateFTotal",
               "components: number[], validationPassRate: number", "number",
               <<"if (components.length === 0) return 0; ...">>),
           createTypeAlias("ActionRecommendation",
               <<"'HALT' | 'CAUTION' | 'PROCEED' | 'ADVANCE' | 'EXECUTE'">>),
           createFunction("getRecommendation", "band: FrequencyBand", "ActionRecommendation",
               <<"switch (band) { ... }">>),
           createFunction("getRecommendationMessage", "band: FrequencyBand", "string",
               <<"switch (band) { ... }">>) >>

buildValidatorsFile(manifest) ==
    GeneratedFile("validators.ts", serializeValidatorsAST(ValidatorsAST(manifest)), "validators")

\* new Date(t).toISOString()
toISOString(t) == <<"1970-01-01T00:00:00.", t, "Z">>

\* buildConfigFile with the template's "new Date().toISOString()" evaluated
\* while generating
BuildConfigFileStamped(manifest) ==
    GeneratedFile("config.ts",
        <<"/** Generated Runtime Config - Vyberology 2.0, Generated by: ", GENERATOR, " */\n",
          "export const generatedAt = '">> \o toISOString(clock) \o <<"';\n">>,
        "config")

\* the text of config.ts is one template with GENERATOR as its only hole;
\* "new Date().toISOString()" stands in it as generated code, not as a value
buildConfigFile(manifest) ==
    GeneratedFile("config.ts",
        <<"/** Generated Runtime Config - Vyberology 2.0, Generated by: ", GENERATOR, " */\n",
          "import ...;\n",
          "export const config = { ... } as const;\n",
          "export interface FrequencyReport { ... }\n",
          "export function generateFrequencyReport(fTotal, validationScore) { ... timestamp: new Date().toISOString(), ... }\n",
          "export default config;\n">>,
        "config")

\* path.replace('.ts', '')
ModuleName(path) ==
    CASE path = "types.ts" -> "types"
      [] path = "constants.ts" -> "constants"
      [] path = "validators.ts" -> "validators"
      [] path = "config.ts" -> "config"
      [] OTHER -> "index"

buildIndexFile(files) ==
    LET others == SelectSeq(files, LAMBDA f : f.path # "index.ts")
        exports == Join([i \in 1..Len(others) |->
                            <<"export * from './", ModuleName(others[i].path), "';">>], <<"\n">>)
    IN  GeneratedFile("index.ts",
            <<"/** Vyberology 2.0 Generated Code, Generated by: ", GENERATOR, " */\n\n">>
            \o exports
            \o <<"\n\n// Default export\nexport { default as config } from './config';\n">>,
            "index")

\* generateOutputHash that leaves the manifest hash out of the hashed text
GenerateOutputHashOfFiles(files, manifestHash) ==
    generateHash(
        <<"{\"files\":[">>
        \o Join([i \in 1..Len(files) |->
                    <<"{\"path\":\"", files[i].path, "\",\"hash\":\"">> \o files[i].hash \o <<"\"}">>],
                <<",">>)
        \o <<"]}">>)

\* generateOutputHash: JSON.stringify({files: [{path, hash}...], manifestHash})
generateOutputHash(files, manifestHash) ==
    generateHash(
        <<"{\"files\":[">>
        \o Join([i \in 1..Len(files) |->
                    <<"{\"path\":\"", files[i].path, "\",\"hash\":\"">> \o files[i].hash \o <<"\"}">>],
                <<",">>)
        \o <<"],\"manifestHash\":\"">> \o manifestHash \o <<"\"}">>)

----------------------------------------------------------------------------
(* Manifest Parser: validateManifest, loadManifest *)

\* the number a canonical literal stands for, in hundredths
NumberValue(t) ==
    CASE t = "0" -> 0     [] t = "0.2" -> 20  [] t = "0.25" -> 25 [] t = "0.3" -> 30
      [] t = "0.31" -> 31 [] t = "1.5" -> 150
      [] t = "0.4" -> 40  [] t = "0.5" -> 50  [] t = "0.6" -> 60  [] t = "0.7" -> 70
      [] t = "0.75" -> 75 [] t = "0.8" -> 80  [] t = "0.9" -> 90  [] t = "1" -> 100
      [] t = "30" -> 3000 [] t = "90" -> 9000

\* Math.abs(weightSum - 1.0) > 0.01 in IEEE doubles, for a sum given in
\* hundredths.  The weights of the documents are decimals of two places.  A
\* sum that is 0.01 above 1.0 in decimals is the double 1.01, which is
\* 1.0100000000000000088...: 0.31 + 0.25 + 0.25 + 0.2 - 1.0 evaluates to
\* 0.010000000000000009, which is greater than the double 0.01.
ExceedsTolerance(weightSum) == weightSum - 100 >= 1 \/ 100 - weightSum > 1

\* the codes of the errors and of the warnings validateManifest collects
validateManifest(manifest) ==
    LET thresholds == Get(manifest, "thresholds")
        weights == Get(manifest, "weights")
        critical == NumberValue(Get(thresholds, "critical").text)
        low == NumberValue(Get(thresholds, "low").text)
        nominal == NumberValue(Get(thresholds, "nominal").text)
        optimal == NumberValue(Get(thresholds, "optimal").text)
        weightSum == NumberValue(Get(weights, "A3_governance").text)
                     + NumberValue(Get(weights, "A4_architecture").text)
                     + NumberValue(Get(weights, "A5_implementation").text)
                     + NumberValue(Get(weights, "validation").text)
        threshold == NumberValue(Get(Get(manifest, "diamond_hands"), "threshold").text)
        errors ==
            (IF ~Truthy(Get(manifest, "version")) THEN <<"MISSING_VERSION">> ELSE <<>>)
            \o (IF ~Truthy(Get(Get(manifest, "project"), "name"))
                THEN <<"MISSING_PROJECT_NAME">> ELSE <<>>)
            \o (IF critical >= low THEN <<"INVALID_THRESHOLDS">> ELSE <<>>)
            \o (IF low >= nominal THEN <<"INVALID_THRESHOLDS">> ELSE <<>>)
            \o (IF nominal >= optimal THEN <<"INVALID_THRESHOLDS">> ELSE <<>>)
            \o (IF threshold < 0 \/ threshold > 100 THEN <<"INVALID_THRESHOLD">> ELSE <<>>)
        warnings == IF ExceedsTolerance(weightSum) THEN <<"WEIGHT_SUM">> ELSE <<>>
    IN  [kind |-> "object", valid |-> Len(errors) = 0, errors |-> errors,
         warnings |-> warnings]

\* loadManifest that hands out the manifest it parsed although validation failed
LoadManifestKeepsManifest(kind, content) ==
    LET manifest == parseYaml(content)
        validationResult == validateManifest(manifest)
    IN  IF kind = "missing"
        THEN [done |-> TRUE, success |-> FALSE, error |-> "Manifest file not found",
              manifest |-> JsUndefined, validationResult |-> JsUndefined]
        ELSE IF kind # "file"
        THEN [done |-> TRUE, success |-> FALSE, error |-> "Failed to load manifest",
              manifest |-> JsUndefined, validationResult |-> JsUndefined]
        ELSE [done |-> TRUE, success |-> validationResult.valid,
              error |-> IF validationResult.valid THEN Undefined
                        ELSE "Manifest validation failed",
              manifest |-> manifest, validationResult |-> validationResult]

\* loadManifest on a path of the given kind, content being the text of the
\* file if there is one; a property the result does not have is undefined
loadManifest(kind, content) ==
    LET manifest == parseYaml(content)
        validationResult == validateManifest(manifest)
    IN  IF kind = "missing"
        THEN [done |-> TRUE, success |-> FALSE, error |-> "Manifest file not found",
              manifest |-> JsUndefined, validationResult |-> JsUndefined]
        ELSE IF kind # "file"
        THEN [done |-> TRUE, success |-> FALSE, error |-> "Failed to load manifest",
              manifest |-> JsUndefined, validationResult |-> JsUndefined]
        ELSE IF ~validationResult.valid
        THEN [done |-> TRUE, success |-> FALSE, error |-> "Manifest validation failed",
              manifest |-> JsUndefined, validationResult |-> validationResult]
        ELSE [done |-> TRUE, success |-> TRUE, error |-> Undefined,
              manifest |-> manifest, validationResult |-> validationResult]

\* JSON.stringify(value, keys): of every object, at every depth, the entries
\* whose key is in the list keys, in the order of that list, undefined
\* entries left out
RECURSIVE JSONStringifyKeys(_, _)
JSONStringifyKeys(value, keys) ==
    CASE value.kind = "string" -> <<"\"", value.text, "\"">>
      [] value.kind \in {"number", "boolean"} -> <<value.text>>
      [] value.kind = "undefined" -> <<"null">>
      [] value.kind = "array" ->
            <<"[">>
            \o Join([i \in 1..Len(value.items) |-> JSONStringifyKeys(value.items[i], keys)],
                    <<",">>)
            \o <<"]">>
      [] OTHER ->
            LET listed == SelectSeq(keys, LAMBDA k : Get(value, k).kind # "undefined")
            IN  <<"{">>
                \o Join([i \in 1..Len(listed) |->
                            <<"\"", listed[i], "\"", ":">>
                            \o JSONStringifyKeys(Get(value, listed[i]), keys)], <<",">>)
                \o <<"}">>

\* sha256, in hex cut to 16 digits and taken as free of collisions, of
\* JSON.stringify(manifest, Object.keys(manifest).sort())
hashManifest(manifest) ==
    LET sorted == <<"ci", "diamond_hands", "evidence", "metrics", "notifications",
                    "project", "roles", "thresholds", "thunder_strike", "version",
                    "weights">>
        own == {manifest.items[i].key : i \in 1..Len(manifest.items)}
    IN  <<"sha256">> \o JSONStringifyKeys(manifest, SelectSeq(sorted, LAMBDA k : k \in own))

\* hashing the text of the document instead of the manifest parsed from it
HashOfDocumentText(content) == <<"sha256">> \o content

\* loadManifest on a file of the given content, then hashManifest(result.manifest)
HashOfDocument(content) == hashManifest(loadManifest("file", content).manifest)

----------------------------------------------------------------------------
(* The manifest documents given to the generator and to the parser *)

VersionLines == <<Line(0, "version", "2.0.0", TRUE)>>

ProjectBlocks ==
    { <<>>,
      <<Line(0, "project", "", FALSE), Line(2, "name", "Vyberology", TRUE),
        Line(2, "description", "Pipeline", TRUE)>>,
      <<Line(0, "project", "", FALSE), Line(2, "description", "Pipeline", TRUE)>> }

ThresholdsBlocks ==
    { <<>>,
      <<Line(0, "thresholds", "", FALSE), Line(2, "critical", "0.2", FALSE),
        Line(2, "low", "0.4", FALSE), Line(2, "nominal", "0.6", FALSE),
        Line(2, "optimal", "0.8", FALSE)>>,
      <<Line(0, "thresholds", "", FALSE), Line(2, "critical", "0.30", FALSE),
        Line(2, "nominal", "0.7", FALSE), Line(2, "optimal", "0.9", FALSE)>> }

WeightsBlocks ==
    { <<>>,
      <<Line(0, "weights", "", FALSE), Line(2, "A3_governance", "0.4", FALSE),
        Line(2, "A4_architecture", "0.2", FALSE), Line(2, "A5_implementation", "0.2", FALSE),
        Line(2, "validation", "0.2", FALSE)>>,
      <<Line(0, "weights", "", FALSE), Line(2, "A3_governance", "0.3", FALSE),
        Line(2, "A4_architecture", "0.25", FALSE), Line(2, "A5_implementation", "0.25", FALSE)>> }

DiamondHandsBlocks ==
    { <<>>,
      <<Line(0, "diamond_hands", "", FALSE), Line(2, "threshold", "0.75", FALSE),
        Line(2, "required_validation_score", "0.9", FALSE),
        Line(2, "approval_required", "false", FALSE)>>,
      <<Line(0, "diamond_hands", "", FALSE), Line(2, "threshold", "0.75", FALSE),
        Line(2, "approval_required", "true", FALSE)>>,
      <<Line(0, "diamond_hands", "", FALSE), Line(2, "threshold", "0.75", FALSE)>> }

ThunderStrikeBlocks ==
    { <<>>,
      <<Line(0, "thunder_strike", "", FALSE), Line(2, "validation_levels", "", FALSE),
        Item("self_assessment"), Item("peer_review"),
        Line(2, "required_for_advancement", "", FALSE), Item("self_assessment")>>,
      <<Line(0, "thunder_strike", "", FALSE), Line(2, "validation_levels", "", FALSE),
        Item("self_assessment"), Item("peer_review")>> }

EvidenceBlocks ==
    { <<>>,
      <<Line(0, "evidence", "", FALSE), Line(2, "output_directory", "evidence/out", TRUE),
        Line(2, "formats", "", FALSE), Item("json"),
        Line(2, "retention_days", "30", FALSE),
        Line(2, "required_artifacts", "", FALSE), Item("frequency_report")>>,
      <<Line(0, "evidence", "", FALSE), Line(2, "output_directory", "evidence/out", TRUE)>> }

\* a block of each kind, in the order of the example manifest
Document(project, thresholds, weights, diamond, thunder, evidence) ==
    VersionLines \o project \o thresholds \o weights \o diamond \o thunder \o evidence

\* the complete block of a kind: the one with the most lines
Complete(blocks) == CHOOSE b \in blocks : \A c \in blocks : Len(c) <= Len(b)

\* documents at the edges of validation: thresholds out of order, equal or
\* 0, weights that do not sum to 1.0 or are 0, an approval threshold of 0 or
\* above 1, a retention of 0 days, no version line
EdgeDocuments ==
    LET project == Complete(ProjectBlocks)
        thunder == Complete(ThunderStrikeBlocks)
        T(critical, low, nominal, optimal) ==
            <<Line(0, "thresholds", "", FALSE), Line(2, "critical", critical, FALSE),
              Line(2, "low", low, FALSE), Line(2, "nominal", nominal, FALSE),
              Line(2, "optimal", optimal, FALSE)>>
        W(governance, architecture, implementation, validation) ==
            <<Line(0, "weights", "", FALSE), Line(2, "A3_governance", governance, FALSE),
              Line(2, "A4_architecture", architecture, FALSE),
              Line(2, "A5_implementation", implementation, FALSE),
              Line(2, "validation", validation, FALSE)>>
        D(threshold) ==
            <<Line(0, "diamond_hands", "", FALSE), Line(2, "threshold", threshold, FALSE),
              Line(2, "required_validation_score", "0.9", FALSE),
              Line(2, "approval_required", "false", FALSE)>>
        E(days) ==
            <<Line(0, "evidence", "", FALSE),
              Line(2, "output_directory", "evidence/out", TRUE),
              Line(2, "formats", "", FALSE), Item("json"),
              Line(2, "retention_days", days, FALSE),
              Line(2, "required_artifacts", "", FALSE), Item("frequency_report")>>
        t == T("0.3", "0.5", "0.7", "0.9")
        w == W("0.3", "0.25", "0.25", "0.2")
        d == D("0.75")
        e == E("30")
        Doc(thresholds, weights, diamond, evidence) ==
            Document(project, thresholds, weights, diamond, thunder, evidence)
    IN  { Doc(t, w, d, e),
          Doc(T("0.6", "0.5", "0.7", "0.9"), w, d, e),
          Doc(T("0.9", "0.7", "0.5", "0.3"), w, d, e),
          Doc(T("0.5", "0.5", "0.7", "0.9"), w, d, e),
          Doc(T("0.3", "0.5", "0.9", "0.9"), w, d, e),
          Doc(T("0", "0.5", "0.7", "0.9"), w, d, e),
          Doc(T("0", "0.2", "0.7", "0.9"), w, d, e),
          Doc(t, W("0.31", "0.25", "0.25", "0.2"), d, e),
          Doc(t, W("0.4", "0.4", "0.2", "0.2"), d, e),
          Doc(t, W("0.5", "0.5", "0", "0"), d, e),
          Doc(t, w, D("0"), e),
          Doc(t, w, D("1.5"), e),
          Doc(t, w, d, E("0")),
          Doc(T("0.9", "0.7", "0.5", "0.3"), W("0.4", "0.4", "0.2", "0.2"), d, e),
          Doc(T("0.6", "0.5", "0.7", "0.9"), w, D("1.5"), e),
          Tail(Doc(t, w, d, e)),
          Tail(Document(<<>>, t, w, d, thunder, e)) }

\* complete documents with a metrics section before the evidence section:
\* metrics of the names Generator B looks for, of other names, and of both
MetricsDocuments ==
    LET Metric(name, weight) ==
            <<Line(2, name, "", FALSE), Line(4, "description", "Measured", TRUE),
              Line(4, "weight", weight, FALSE), Line(4, "sources", "", FALSE),
              Line(6, "-", "git", FALSE)>>
        Doc(metrics) ==
            Document(Complete(ProjectBlocks), Complete(ThresholdsBlocks),
                     Complete(WeightsBlocks), Complete(DiamondHandsBlocks),
                     Complete(ThunderStrikeBlocks) \o <<Line(0, "metrics", "", FALSE)>> \o metrics,
                     Complete(EvidenceBlocks))
    IN  { Doc(Metric("coherence", "0.5") \o Metric("alignment", "0.5")),
          Doc(Metric("coherence", "0.5") \o Metric("throughput", "0.5")),
          Doc(Metric("throughput", "0.5") \o Metric("latency", "0.5")) }

\* two kinds of block vary at a time, the others are complete; the two
\* minimal documents; the documents at the edges of validation; and the
\* documents with metrics
Documents ==
    { Document(p, t, Complete(WeightsBlocks), Complete(DiamondHandsBlocks),
               Complete(ThunderStrikeBlocks), Complete(EvidenceBlocks)) :
        p \in ProjectBlocks, t \in ThresholdsBlocks }
    \cup
    { Document(Complete(ProjectBlocks), Complete(ThresholdsBlocks), w, d,
               Complete(ThunderStrikeBlocks), Complete(EvidenceBlocks)) :
        w \in WeightsBlocks, d \in DiamondHandsBlocks }
    \cup
    { Document(Complete(ProjectBlocks), Complete(ThresholdsBlocks), Complete(WeightsBlocks),
               Complete(DiamondHandsBlocks), th, e) :
        th \in ThunderStrikeBlocks, e \in EvidenceBlocks }
    \cup
    { Document(Complete(ProjectBlocks), <<>>, <<>>, <<>>, <<>>, <<>>),
      Document(<<>>, <<>>, <<>>, <<>>, <<>>, <<>>) }
    \cup EdgeDocuments
    \cup MetricsDocuments

\* the blocks of some lines: each begins with a key at the given indentation
\* and runs up to the next such key
RECURSIVE Blocks(_, _)
Blocks(lines, indent) ==
    IF Len(lines) = 0 THEN <<>>
    ELSE LET next == First({k \in 2..Len(lines) :
                              lines[k].indent = indent /\ lines[k].key # "-"})
         IN  IF next = 0 THEN <<lines>>
             ELSE <<SubSeq(lines, 1, next - 1)>>
                  \o Blocks(SubSeq(lines, next, Len(lines)), indent)

\* the document with the same keys and values in another order: "same" none,
\* "sections" the top-level sections reversed, "keys" the keys inside each
\* section reversed, a list staying in order below its key
Reordered(content, order) ==
    LET sections == Blocks(content, 0)
    IN  CASE order = "sections" -> FlattenSeq(Reverse(sections))
          [] order = "keys" ->
                FlattenSeq([i \in 1..Len(sections) |->
                    <<Head(sections[i])>>
                    \o FlattenSeq(Reverse(Blocks(Tail(sections[i]), 2)))])
          [] OTHER -> content

----------------------------------------------------------------------------
(* The file contents given to the comparator *)

cFoo1 == <<"export", " ", "const", " ", "foo", " ", "=", " ", "1", ";">>
cFoo2 == <<"export", " ", "const", " ", "foo", " ", "=", " ", "2", ";">>

\* export { <names> };
ExportList(names) ==
    <<"export", " ", "{", " ">>
    \o FlattenSeq([i \in 1..Len(names) |->
                     IF i < Len(names) THEN <<names[i], ",", " ">> ELSE <<names[i]>>])
    \o <<" ", "}", ";">>

\* import { <name> } from './<name>';
ImportLine(name) ==
    <<"import", " ", "{", " ", name, " ", "}", " ", "from", " ", "'", ".", "/",
      name, "'", ";">>

\* const obj = { <key>: <value>, ... };
ObjectLiteral(props) ==
    <<"const", " ", "obj", " ", "=", " ", "{", " ">>
    \o FlattenSeq([i \in 1..Len(props) |->
                     IF i < Len(props)
                     THEN <<props[i][1], ":", " ", props[i][2], ",", " ">>
                     ELSE <<props[i][1], ":", " ", props[i][2]>>])
    \o <<" ", "}", ";">>

\* contents that are compared with each other: the files of one group are the
\* renderings of one declaration by the two generators
ContentGroups ==
    LET
        cBar == <<"export", " ", "const", " ", "bar", " ", "=", " ", "2", ";">>

        \* SEMANTICS.md rule 1: export const foo=1;
        cFooTight == <<"export", " ", "const", " ", "foo", "=", "1", ";">>
        cFooSpaced ==
            <<"export", " ", " ", "const", "\t", "foo", " ", "=", " ", "1", ";", "\n">>
        cLinesLF == cFoo1 \o <<"\n">> \o cBar
        cLinesCRLF == cFoo1 \o <<"\r", "\n">> \o cBar
        cLinesBlank == cFoo1 \o <<"\n", "\n">> \o cBar
        cLinesIndented == cFoo1 \o <<"\n", " ", " ">> \o cBar

        \* SEMANTICS.md rule 2: "// This is foo" and "/* foo constant */" above the line
        cLineComment == <<"/", "/", " ", "This", " ", "is", " ", "foo", "\n">> \o cFoo1
        cBlockComment ==
            <<"/", "*", " ", "foo", " ", "constant", " ", "*", "/", "\n">> \o cFoo1
        cOtherLineComment == <<"/", "/", " ", "foo", "\n">> \o cFoo1
        cUrlBlockComment ==
            <<"/", "*", " ", "http", ":", "/", "/", "x", " ", "*", "/", "\n">> \o cFoo1
        cTrailingComment == cFoo1 \o <<"/", "/", "x">>
        cLeadingBlock == <<"/", "*", "x", "*", "/">> \o cFoo1

        \* SEMANTICS.md rule 5: const s = "hello"; and const s = 'hello';
        cStrDouble == <<"const", " ", "s", " ", "=", " ", "\"", "hello", "\"", ";">>
        cStrSingle == <<"const", " ", "s", " ", "=", " ", "'", "hello", "'", ";">>

        \* SEMANTICS.md rule 6: const arr = [1, 2, 3]; and const arr = [1, 2, 3,];
        cArr ==
            <<"const", " ", "arr", " ", "=", " ", "[", "1", ",", " ", "2", ",", " ", "3",
              "]", ";">>
        cArrTrailing ==
            <<"const", " ", "arr", " ", "=", " ", "[", "1", ",", " ", "2", ",", " ", "3",
              ",", "]", ";">>

        \* SEMANTICS.md rule 4: export { foo, bar }; and export { bar, foo };
        cExportFooBar == ExportList(<<"foo", "bar">>)
        cExportBarFoo == ExportList(<<"bar", "foo">>)

        \* SEMANTICS.md rule 3: the two import statements in either order
        cImportAB == ImportLine("a") \o <<"\n">> \o ImportLine("b")
        cImportBA == ImportLine("b") \o <<"\n">> \o ImportLine("a")

        \* SEMANTICS.md rule 7: const obj = { a: 1, b: 2 }; and const obj = { b: 2, a: 1 };
        cObjAB == ObjectLiteral(<<<<"a", "1">>, <<"b", "2">>>>)
        cObjBA == ObjectLiteral(<<<<"b", "2">>, <<"a", "1">>>>)

        \* SEMANTICS.md rule 8: const result = compute(); and const output = compute();
        cResult == <<"const", " ", "result", " ", "=", " ", "compute", "(", ")", ";">>
        cOutput == <<"const", " ", "output", " ", "=", " ", "compute", "(", ")", ";">>

        \* a type and a constant of one name: export type foo = 1; export const foo = 1;
        cTypeAndConst ==
            <<"export", " ", "type", " ", "foo", " ", "=", " ", "1", ";", "\n">> \o cFoo1

        \* a string literal that holds "//"
        cUrlA == <<"const", " ", "u", " ", "=", " ", "'", "http", ":", "/", "/", "a", "'", ";">>
        cUrlB == <<"const", " ", "u", " ", "=", " ", "'", "http", ":", "/", "/", "b", "'", ";">>
    IN
        { {cFoo1, cFoo2, cFooTight, cFooSpaced, cLineComment, cBlockComment,
           cOtherLineComment, cUrlBlockComment, cTrailingComment, cLeadingBlock},
          {cLinesLF, cLinesCRLF, cLinesBlank, cLinesIndented},
          {cStrDouble, cStrSingle},
          {cArr, cArrTrailing},
          {cExportFooBar, cExportBarFoo},
          {cImportAB, cImportBA},
          {cObjAB, cObjBA},
          {cResult, cOutput},
          {cUrlA, cUrlB},
          {cFoo1, cBar, cLinesLF, cTypeAndConst} }

Paths == {"index.ts", "types.ts"}

Hashes == {"abc123", "def456"}

\* the metadata of the mock A3 output of the adjudicator's smoke test
A3Metadata ==
    [timestamp |-> "2024-01-01T00:00:00Z", version |-> "0.1.0",
     manifestHash |-> "manifest123", durationMs |-> 100, fileCount |-> 1,
     generator |-> Undefined]

A4Metadatas ==
    [timestamp : {"2024-01-01T00:00:01Z"}, version : {"0.1.0", "1.0.0"},
     manifestHash : {"manifest123", "manifest456"}, durationMs : {150},
     fileCount : {2}, generator : {Undefined, "a4-dual-ast"}]

\* sequences of at most MaxFiles files with pairwise distinct paths
FileSeqs(files) ==
    {fs \in UNION {[1..n -> files] : n \in 0..MaxFiles} :
        \A i, j \in 1..Len(fs) : i # j => fs[i].path # fs[j].path}

\* bundles that differ in their file sets, file hashes and metadata
StructuralPairs ==
    {<<[files |-> f3, metadata |-> A3Metadata, hash |-> "a3hash"],
       [files |-> f4, metadata |-> m4, hash |-> h4]>> :
        f3 \in FileSeqs([path : Paths, content : {cFoo1}, hash : {"abc123"}]),
        f4 \in FileSeqs([path : Paths, content : {cFoo1, cFoo2}, hash : Hashes]),
        m4 \in A4Metadatas,
        h4 \in {"a3hash", "a4hash"}}

\* bundles of one file index.ts each, with two contents of one group
ContentPairs ==
    {<<[files |-> <<[path |-> "index.ts", content |-> c[1], hash |-> "abc123"]>>,
        metadata |-> A3Metadata, hash |-> "a3hash"],
       [files |-> <<[path |-> "index.ts", content |-> c[2], hash |-> h]>>,
        metadata |-> [A3Metadata EXCEPT !.timestamp = "2024-01-01T00:00:01Z",
                                        !.durationMs = 150, !.fileCount = 2],
        hash |-> "a4hash"]>> :
        c \in UNION {g \X g : g \in ContentGroups}, h \in Hashes}

\* a bundle compared with itself
IdenticalPairs == {<<pair[2], pair[2]>> : pair \in StructuralPairs \cup ContentPairs}

InputPairs == StructuralPairs \cup ContentPairs \cup IdenticalPairs

NoOptions == [present |-> FALSE]

OptionsSet ==
    {NoOptions}
    \cup [present : {TRUE}, ignoreWhitespace : BOOLEAN, ignoreComments : BOOLEAN,
          semanticMode : {"strict", "relaxed"}]

NotDone == [done |-> FALSE]

\* the call ended by raising the exception e and returned nothing
Thrown(e) == [done |-> FALSE, thrown |-> e]

\* what may be undefined in the input of adjudicate: nothing, a bundle, both
\* bundles, or the file list of a bundle that is there
InputFaults ==
    {{}, {"a3Output"}, {"a4Output"}, {"a3Output", "a4Output"},
     {"a3Output.files"}, {"a4Output.files"}}

----------------------------------------------------------------------------
(* Generator B runs: generate, step by step, and loadManifest *)

\* the generate calls in flight
Runs == {1, 2}

\* config.manifestPath names a file, nothing, or something that cannot be read
\* as a file
FileKinds == {"file", "missing", "directory"}

\* the error of fs.readFileSync on a path that is no readable file
ReadError(kind) == IF kind = "missing" THEN "ENOENT" ELSE "EISDIR"

\* the locals of a generate call that has not started
Idle ==
    [pc |-> "idle", manifestPath |-> "manifest.yaml", startTime |-> 0,
     manifest |-> JsUndefined, manifestHash |-> <<>>, files |-> <<>>, timestamp |-> 0]

\* the second file: a document with a project and weights of its own
OtherManifest ==
    Document(Complete(ProjectBlocks), <<>>, Complete(WeightsBlocks), <<>>, <<>>, <<>>)

\* what is at a path, and the text of the file there: the manifest, or the
\* second file beside it
FileAt(path) ==
    IF path = "manifest.yaml" THEN [kind |-> fileKind, content |-> manifestFile]
    ELSE [kind |-> "file", content |-> OtherManifest]

\* no generator run and no manifest load: the comparator works on given bundles
GenInit ==
    /\ fileKind = "missing"
    /\ manifestFile = <<>>
    /\ gen = [r \in Runs |-> Idle]
    /\ output = [r \in Runs |-> NotDone]
    /\ loaded = NotDone
    /\ hashes = NotDone
    /\ keyText = <<>>
    /\ parsed = NotDone
    /\ walk = ParseStart

InitGen ==
    /\ fileKind \in FileKinds
    /\ manifestFile \in (IF fileKind = "file" THEN Documents ELSE {<<>>})
    /\ gen = [r \in Runs |-> Idle]
    /\ output = [r \in Runs |-> NotDone]
    /\ loaded = NotDone
    /\ hashes = NotDone
    /\ keyText = <<>>
    /\ parsed = NotDone
    /\ walk = ParseStart
    /\ a3Output = NotDone
    /\ a4Output = NotDone
    /\ options = NoOptions
    /\ absent = {}
    /\ diffResult = NotDone
    /\ diffReport = NotDone
    /\ verdict = NotDone
    /\ clock = 0
    /\ pc = "generating"

\* time passes
Tick ==
    /\ clock < MaxClock
    /\ clock' = clock + 1
    /\ UNCHANGED <<valueVars, compVars, genVars>>

\* no call of generate has begun and not ended: generate has no await, so a
\* call of it runs to its end before any other code of the thread
NoRunInFlight == \A r \in Runs : gen[r].pc \in {"idle", "done", "failed"}

\* const startTime = Date.now()
GenStart(r) ==
    /\ NoRunInFlight
    /\ gen[r].pc = "idle"
    /\ gen' = [gen EXCEPT ![r].pc = "started", ![r].startTime = clock]
    /\ UNCHANGED <<valueVars, compVars, clock, fileKind, manifestFile, output, loaded, hashes>>

\* const manifest = parseManifestRegex(config.manifestPath);
\* const manifestHash = generateHash(JSON.stringify(manifest))
\* fs.readFileSync, the first statement of parseManifestRegex, throws when
\* there is no file to read: nothing catches it and the call of generate ends
GenParse(r) ==
    /\ gen[r].pc = "started"
    /\ IF FileAt(gen[r].manifestPath).kind = "file"
       THEN LET manifest == parseManifestRegex(FileAt(gen[r].manifestPath).content)
            IN  /\ gen' = [gen EXCEPT ![r].pc = "parsed",
                                      ![r].manifest = manifest,
                                      ![r].manifestHash =
                                          generateHash(JSONStringify(manifest))]
                /\ output' = output
       ELSE /\ gen' = [gen EXCEPT ![r].pc = "failed"]
            /\ output' = [output EXCEPT ![r] =
                                Thrown(ReadError(FileAt(gen[r].manifestPath).kind))]
    /\ UNCHANGED <<valueVars, compVars, clock, fileKind, manifestFile, loaded, hashes>>

\* GenBuild on a manifest kept in one place for all calls: a call builds from
\* the manifest the other call has parsed, if there is one
GenBuildShared(r) ==
    /\ gen[r].pc = "parsed"
    /\ LET other == CHOOSE q \in Runs : q # r
           manifest == IF gen[other].manifest.kind = "object" THEN gen[other].manifest
                       ELSE gen[r].manifest
           four == <<buildTypesFile(manifest), buildConstantsFile(manifest),
                     buildValidatorsFile(manifest), buildConfigFile(manifest)>>
       IN  gen' = [gen EXCEPT ![r].pc = "built",
                              ![r].files = Append(four, buildIndexFile(four))]
    /\ UNCHANGED <<valueVars, compVars, clock, fileKind, manifestFile, output, loaded, hashes>>

\* the five files.push(...) calls
GenBuild(r) ==
    /\ gen[r].pc = "parsed"
    /\ LET manifest == gen[r].manifest
           four == <<buildTypesFile(manifest), buildConstantsFile(manifest),
                     buildValidatorsFile(manifest), buildConfigFile(manifest)>>
       IN  gen' = [gen EXCEPT ![r].pc = "built",
                              ![r].files = Append(four, buildIndexFile(four))]
    /\ UNCHANGED <<valueVars, compVars, clock, fileKind, manifestFile, output, loaded, hashes>>

\* timestamp: new Date().toISOString()
GenStamp(r) ==
    /\ gen[r].pc = "built"
    /\ gen' = [gen EXCEPT ![r].pc = "stamped", ![r].timestamp = clock]
    /\ UNCHANGED <<valueVars, compVars, clock, fileKind, manifestFile, output, loaded, hashes>>

\* durationMs: Date.now() - startTime, the rest of the output object,
\* output.hash = generateOutputHash(output); return output
GenReturn(r) ==
    /\ gen[r].pc = "stamped"
    /\ gen' = [gen EXCEPT ![r].pc = "done"]
    /\ output' = [output EXCEPT ![r] =
          [done |-> TRUE,
           files |-> gen[r].files,
           metadata |-> [timestamp |-> toISOString(gen[r].timestamp),
                         version |-> VERSION,
                         manifestHash |-> gen[r].manifestHash,
                         durationMs |-> clock - gen[r].startTime,
                         generator |-> GENERATOR,
                         fileCount |-> Len(gen[r].files)],
           hash |-> generateOutputHash(gen[r].files, gen[r].manifestHash)]]
    /\ UNCHANGED <<valueVars, compVars, clock, fileKind, manifestFile, loaded, hashes>>

\* loadManifest(manifestPath) on the same file
LoadManifest ==
    /\ pc = "generating"
    /\ NoRunInFlight
    /\ ~loaded.done
    /\ loaded' = loadManifest(fileKind, manifestFile)
    /\ UNCHANGED <<valueVars, compVars, clock, fileKind, manifestFile, gen, output, hashes>>

\* the document is loaded again and its manifest hashed, and so is a document
\* of the same keys and values in some order
HashManifest ==
    /\ pc = "generating"
    /\ NoRunInFlight
    /\ loaded.done
    /\ loaded.success
    /\ ~hashes.done
    /\ \E order \in {"same", "sections", "keys"} :
          hashes' = [done |-> TRUE,
                     order |-> order,
                     hash1 |-> HashOfDocument(manifestFile),
                     hash2 |-> HashOfDocument(Reordered(manifestFile, order))]
    /\ UNCHANGED <<valueVars, compVars, clock, fileKind, manifestFile, gen, output, loaded>>

Generate == \E r \in Runs : GenStart(r) \/ GenParse(r) \/ GenBuild(r) \/ GenStamp(r) \/ GenReturn(r)

\* const startTime = Date.now() of a call on either file, begun while the
\* other call may be anywhere in its steps
GenStartOn(r) ==
    /\ gen[r].pc = "idle"
    /\ \E path \in {"manifest.yaml", "other.yaml"} :
          gen' = [gen EXCEPT ![r].pc = "started", ![r].manifestPath = path,
                             ![r].startTime = clock]
    /\ UNCHANGED <<valueVars, compVars, clock, fileKind, manifestFile, output, loaded, hashes>>

\* run-diff.ts: const a3Output = await generate(config);
\* const a4Output = await generate(config): the comparison is given the two
\* bundles once both calls have returned
AwaitBundles ==
    /\ pc = "generating"
    /\ \A r \in Runs : gen[r].pc = "done"
    /\ a3Output' = output[1]
    /\ a4Output' = output[2]
    /\ pc' = "start"
    /\ UNCHANGED <<valueVars, options, absent, diffResult, diffReport, verdict, clock, genVars>>

\* the steps of the two calls in any order
Steps ==
    \E r \in Runs : GenStartOn(r) \/ GenParse(r) \/ GenBuild(r) \/ GenStamp(r) \/ GenReturn(r)

NextRuns == Tick \/ Steps \/ AwaitBundles

\* the manifests of the interleaved calls: project and thresholds vary
RunDocuments ==
    { Document(p, t, Complete(WeightsBlocks), Complete(DiamondHandsBlocks),
               Complete(ThunderStrikeBlocks), Complete(EvidenceBlocks)) :
        p \in ProjectBlocks, t \in ThresholdsBlocks }

InitRuns == InitGen /\ manifestFile \in RunDocuments \cup {<<>>}

SpecRuns == InitRuns /\ [][NextRuns]_vars

NextGen == Tick \/ Generate \/ LoadManifest \/ HashManifest

SpecGen == InitGen /\ [][NextGen]_vars

----------------------------------------------------------------------------
(* The reading of one key line by parseYaml *)

\* texts after the colon of a key line, trimmed: bare and quoted scalars,
\* with and without an inline comment, and comments alone
ValueTexts ==
    LET dq == "\""
        note == <<" ", "#", " ", "note">>
        scalars ==
            { <<"true">>, <<"false">>, <<"True">>, <<"abc">>, <<"a", " ", "b">>,
              <<"5">>, <<"0", ".", "5">>, <<"-", "5">>, <<"-", "0", ".", "5">>,
              <<".", "5">>, <<"5", ".">>, <<"1", ".", "2", ".", "3">>, <<"-">>,
              <<"5", "e", "3">>,
              <<dq, "abc", dq>>, <<"'", "abc", "'">>, <<dq, "true", dq>>,
              <<"'", "false", "'">>, <<dq, "5", dq>>, <<"'", "0", ".", "5", "'">>,
              <<dq, dq>>, <<dq, "a", " ", "b", dq>>, <<dq, "abc", "'">> }
    IN  scalars
        \cup { t \o note : t \in scalars }
        \cup { <<>>, <<"#">>, <<"#", " ", "note">>, <<"#", "note">>,
               <<dq, "a", "#", "b", dq>>, <<"'", "a", "#", "b", "'">>,
               <<dq, "a", " ", "#", " ", "b", dq>>,
               <<dq, "#", "abc", dq>> }

\* a key line is about to be read; no generator runs, no comparison
InitValue ==
    /\ keyText \in ValueTexts
    /\ parsed = NotDone
    /\ walk = ParseStart
    /\ a3Output = NotDone
    /\ a4Output = NotDone
    /\ options = NoOptions
    /\ absent = {}
    /\ diffResult = NotDone
    /\ diffReport = NotDone
    /\ verdict = NotDone
    /\ clock = 0
    /\ pc = "parsing"
    /\ fileKind = "missing"
    /\ manifestFile = <<>>
    /\ gen = [r \in Runs |-> Idle]
    /\ output = [r \in Runs |-> NotDone]
    /\ loaded = NotDone
    /\ hashes = NotDone

\* the top-level key branch of the loop body: if (value) result[key] =
\* parseValue(value) else result[key] = {}
ParseKeyLine ==
    /\ pc = "parsing"
    /\ ~parsed.done
    /\ parsed' = IF keyText # <<>>
                 THEN [done |-> TRUE, hasValue |-> TRUE, stored |-> parseValueText(keyText)]
                 ELSE [done |-> TRUE, hasValue |-> FALSE, stored |-> JsObject(<<>>)]
    /\ UNCHANGED <<compVars, clock, genVars, keyText, walk>>

NextValue == Tick \/ ParseKeyLine

SpecValue == InitValue /\ [][NextValue]_vars

----------------------------------------------------------------------------
(* The walk of parseYaml over the lines of a document *)

\* documents whose lines are not where the documents above have them: a
\* line indented under a top-level scalar, keys four columns in under their
\* section, a list directly under a top-level key, an item after a key with
\* a value, an item after a top-level scalar, a list between scalars
WalkDocuments ==
    LET project == <<Line(0, "project", "", FALSE), Line(2, "name", "vyberology", TRUE)>>
        version == <<Line(0, "version", "2.0.0", TRUE)>>
        formats == <<Line(2, "formats", "", FALSE), Item("json"), Item("yaml")>>
    IN  { project \o version \o <<Line(2, "description", "late", TRUE)>>,
          <<Line(0, "project", "", FALSE), Line(4, "name", "vyberology", TRUE),
            Line(4, "description", "deep", TRUE)>> \o version,
          version \o <<Line(0, "tags", "", FALSE), Line(2, "-", "core", FALSE),
                       Line(2, "-", "beta", FALSE)>>,
          project \o <<Line(2, "owner", "lumen", TRUE), Item("extra")>> \o version,
          <<Line(0, "evidence", "", FALSE)>> \o formats \o version \o <<Item("late")>>,
          <<Line(0, "evidence", "", FALSE)>> \o formats
              \o <<Line(2, "retention_days", "30", FALSE)>> \o version,
          version \o project \o <<Line(0, "evidence", "", FALSE)>> \o formats,
          version \o <<Line(2, "name", "orphan", TRUE)>> \o project }

\* parseYaml is about to read the first line of a document
InitWalk ==
    /\ manifestFile \in Documents \cup WalkDocuments
    /\ fileKind = "file"
    /\ walk = ParseStart
    /\ keyText = <<>>
    /\ parsed = NotDone
    /\ a3Output = NotDone
    /\ a4Output = NotDone
    /\ options = NoOptions
    /\ absent = {}
    /\ diffResult = NotDone
    /\ diffReport = NotDone
    /\ verdict = NotDone
    /\ clock = 0
    /\ pc = "walking"
    /\ gen = [r \in Runs |-> Idle]
    /\ output = [r \in Runs |-> NotDone]
    /\ loaded = NotDone
    /\ hashes = NotDone

\* one pass of for (const line of lines)
ParseNextLine ==
    /\ pc = "walking"
    /\ walk.line <= Len(manifestFile)
    /\ walk' = [ParseLine(walk, manifestFile[walk.line]) EXCEPT !.line = walk.line + 1]
    /\ UNCHANGED <<compVars, clock, genVars, keyText, parsed>>

\* return normalizeManifest(result), to loadManifest, which validates it
ReturnManifest ==
    /\ pc = "walking"
    /\ walk.line > Len(manifestFile)
    /\ LET manifest == normalizeManifest(walk.result)
           validationResult == validateManifest(manifest)
       IN  loaded' =
               IF ~validationResult.valid
               THEN [done |-> TRUE, success |-> FALSE, error |-> "Manifest validation failed",
                     manifest |-> JsUndefined, validationResult |-> validationResult]
               ELSE [done |-> TRUE, success |-> TRUE, error |-> Undefined,
                     manifest |-> manifest, validationResult |-> validationResult]
    /\ pc' = "walked"
    /\ UNCHANGED <<valueVars, a3Output, a4Output, options, absent, diffResult, diffReport,
                   verdict, clock, fileKind, manifestFile, gen, output, hashes>>

NextWalk == Tick \/ ParseNextLine \/ ReturnManifest

SpecWalk == InitWalk /\ [][NextWalk]_vars

----------------------------------------------------------------------------
(* The comparator run: buildDiff, generateDiffReport, adjudicate on one pair *)

Init ==
    /\ \E pair \in InputPairs :
          /\ a3Output = pair[1]
          /\ a4Output = pair[2]
    /\ options = NoOptions
    /\ absent = {}
    /\ diffResult = NotDone
    /\ diffReport = NotDone
    /\ verdict = NotDone
    /\ clock = 0
    /\ pc = "start"
    /\ GenInit

\* run-diff.ts: const diffResult = buildDiff(a3Output, a4Output)
BuildDiff ==
    /\ pc = "start"
    /\ diffResult' = buildDiff(a3Output, a4Output, clock)
    /\ pc' = "diffed"
    /\ UNCHANGED <<valueVars, a3Output, a4Output, options, absent, diffReport, verdict, clock, genVars>>

\* run-diff.ts: const report = generateDiffReport(diffResult)
GenerateDiffReport ==
    /\ pc = "diffed"
    /\ diffReport' = generateDiffReport(diffResult)
    /\ pc' = "reported"
    /\ UNCHANGED <<valueVars, a3Output, a4Output, options, absent, diffResult, verdict, clock, genVars>>

\* adjudicate({ a3Output, a4Output, options }), where a bundle or its file
\* list may be undefined: compare then reads a property of undefined at its
\* first statements, and neither compare nor adjudicate catches the TypeError
Adjudicate ==
    /\ pc = "reported"
    /\ \E opts \in OptionsSet, faults \in InputFaults :
          /\ options' = opts
          /\ absent' = faults
          /\ verdict' = IF faults # {} THEN Thrown("TypeError")
                        ELSE adjudicate(a3Output, a4Output, opts, clock)
    /\ pc' = "adjudicated"
    /\ UNCHANGED <<valueVars, a3Output, a4Output, diffResult, diffReport, clock, genVars>>

\* buildDiff(a3Output, a4Output) called once more on the same two bundles,
\* after the report of the first call has been made
BuildDiffAgain ==
    /\ pc = "reported"
    /\ diffResult' = buildDiff(a3Output, a4Output, clock)
    /\ pc' = "rediffed"
    /\ UNCHANGED <<valueVars, a3Output, a4Output, options, absent, diffReport, verdict, clock, genVars>>

Next == Tick \/ BuildDiff \/ GenerateDiffReport \/ Adjudicate \/ BuildDiffAgain

Spec == Init /\ [][Next]_vars

----------------------------------------------------------------------------
(* Properties of the comparator *)

HasSeverity(list, sev) == \E i \in 1..Len(list) : list[i].severity = sev

HasEntry(list, type, sev, path) ==
    \E i \in 1..Len(list) :
        list[i].type = type /\ list[i].severity = sev /\ list[i].path = path

PathsIn(bundle) == {bundle.files[i].path : i \in 1..Len(bundle.files)}

OnlyInA3 == PathsIn(a3Output) \ PathsIn(a4Output)

OnlyInA4 == PathsIn(a4Output) \ PathsIn(a3Output)

\* what adjudicate returned: <<verdict, semanticallyEquivalent, confidence>>
Adjudged == <<verdict.verdict, verdict.semanticallyEquivalent, verdict.confidence>>

\* C1: the verdict, the equivalence flag and the confidence that adjudicate
\* returns follow from the severities of its diff list by the table: no diffs
\* give (MATCH, true, 1.0); a critical diff gives (MISMATCH, false, 0.95); a
\* major and no critical diff gives (PARTIAL_MATCH, false, 0.8); only minor or
\* info diffs give (MATCH, true, 0.9).
C1_VerdictTable ==
    verdict.done =>
        /\ Len(verdict.diffs) = 0 => Adjudged = <<"MATCH", TRUE, 100>>
        /\ HasSeverity(verdict.diffs, "critical") => Adjudged = <<"MISMATCH", FALSE, 95>>
        /\ (HasSeverity(verdict.diffs, "major") /\ ~HasSeverity(verdict.diffs, "critical"))
              => Adjudged = <<"PARTIAL_MATCH", FALSE, 80>>
        /\ (/\ Len(verdict.diffs) > 0
            /\ \A i \in 1..Len(verdict.diffs) :
                  verdict.diffs[i].severity \in {"minor", "info"})
              => Adjudged = <<"MATCH", TRUE, 90>>

\* a verdict over a diff list that holds a critical and a major diff
C1_Witness ==
    /\ verdict.done
    /\ HasSeverity(verdict.diffs, "critical")
    /\ HasSeverity(verdict.diffs, "major")

\* C2: the verdict of the diff report is MATCH iff criticalCount = 0 and
\* majorCount = 0, MISMATCH iff criticalCount > 0, PARTIAL_MATCH iff
\* criticalCount = 0 and majorCount > 0, whatever the other summary fields are.
C2_ReportVerdict ==
    diffReport.done =>
        LET sm == diffReport.summary
        IN  /\ diffReport.verdict = "MATCH"
                  <=> (sm.criticalCount = 0 /\ sm.majorCount = 0)
            /\ diffReport.verdict = "MISMATCH" <=> sm.criticalCount > 0
            /\ diffReport.verdict = "PARTIAL_MATCH"
                  <=> (sm.criticalCount = 0 /\ sm.majorCount > 0)
            /\ sm = diffResult.summary

\* a report that is a MATCH although the bundle hashes differ and an info
\* mismatch is counted
C2_Witness ==
    /\ diffReport.done
    /\ diffReport.verdict = "MATCH"
    /\ ~diffReport.summary.hashMatch
    /\ diffReport.summary.infoCount > 0

C4_MissingFileEitherWay ==
    \A p \in OnlyInA3 \cup OnlyInA4 :
        /\ diffResult.done => HasEntry(diffResult.mismatches, "MISSING_FILE", "critical", p)
        /\ diffReport.done => diffReport.verdict = "MISMATCH"
        /\ verdict.done =>
              /\ HasEntry(verdict.diffs, "MISSING_FILE", "critical", p)
              /\ verdict.verdict = "MISMATCH"

\* C4 amended: a path that only the A3 bundle holds gets a critical MISSING_FILE
\* mismatch, a path that only the A4 bundle holds gets a critical EXTRA_FILE
\* mismatch, from buildDiff and from compare, and both derived verdicts are
\* MISMATCH.
C4_OneSidedPathIsCritical ==
    /\ \A p \in OnlyInA3 :
          /\ diffResult.done =>
                HasEntry(diffResult.mismatches, "MISSING_FILE", "critical", p)
          /\ verdict.done => HasEntry(verdict.diffs, "MISSING_FILE", "critical", p)
    /\ \A p \in OnlyInA4 :
          /\ diffResult.done =>
                HasEntry(diffResult.mismatches, "EXTRA_FILE", "critical", p)
          /\ verdict.done => HasEntry(verdict.diffs, "EXTRA_FILE", "critical", p)
    /\ OnlyInA3 \cup OnlyInA4 # {} =>
          /\ diffReport.done => diffReport.verdict = "MISMATCH"
          /\ verdict.done => verdict.verdict = "MISMATCH"

\* both comparators ran on bundles of which each holds a path the other lacks
C4_Witness ==
    /\ OnlyInA3 # {}
    /\ OnlyInA4 # {}
    /\ diffReport.done
    /\ verdict.done

----------------------------------------------------------------------------
(* Properties of the semantic comparison of two files at one path *)

\* pairs <<i, j>> of a file of A3 and the file of A4 that compare matches it
\* with, whose hash fields differ
ComparedFiles ==
    {<<i, j>> \in (1..Len(a3Output.files)) \X (1..Len(a4Output.files)) :
        /\ j = FindFile(a4Output.files, a3Output.files[i].path)
        /\ a3Output.files[i].hash # a4Output.files[j].hash}

NoDiffAt(path) == \A k \in 1..Len(verdict.diffs) : verdict.diffs[k].path # path

StripWhitespace(c) == SelectSeq(c, LAMBDA x : x \notin Whitespace)

\* the two contents differ, and only in their whitespace
WhitespaceOnly(c1, c2) == c1 # c2 /\ StripWhitespace(c1) = StripWhitespace(c2)

Quotes == {"'", "\""}

\* the text without its comments, by the lexical grammar of the language: a
\* line comment runs from "//" to the end of the line, a block comment from
\* "/*" to the next "*/", and neither starts inside a string literal
RECURSIVE LexStripComments(_, _)
LexStripComments(s, mode) ==
    IF s = <<>> THEN <<>>
    ELSE CASE mode = "code" ->
                 IF Len(s) >= 2 /\ s[1] = "/" /\ s[2] = "/"
                 THEN LexStripComments(From(s, 3), "line")
                 ELSE IF Len(s) >= 2 /\ s[1] = "/" /\ s[2] = "*"
                 THEN LexStripComments(From(s, 3), "block")
                 ELSE IF s[1] \in Quotes
                 THEN <<s[1]>> \o LexStripComments(Tail(s), s[1])
                 ELSE <<s[1]>> \o LexStripComments(Tail(s), "code")
           [] mode = "line" ->
                 IF s[1] \in LineTerminator
                 THEN <<s[1]>> \o LexStripComments(Tail(s), "code")
                 ELSE LexStripComments(Tail(s), "line")
           [] mode = "block" ->
                 IF Len(s) >= 2 /\ s[1] = "*" /\ s[2] = "/"
                 THEN LexStripComments(From(s, 3), "code")
                 ELSE LexStripComments(Tail(s), "block")
           [] OTHER ->
                 <<s[1]>> \o LexStripComments(Tail(s), IF s[1] = mode THEN "code" ELSE mode)

\* the two contents differ, and only in their comments
CommentsOnly(c1, c2) ==
    c1 # c2 /\ LexStripComments(c1, "code") = LexStripComments(c2, "code")

\* the two contents differ, and only in the quote character of string literals
QuoteOnly(c1, c2) ==
    /\ c1 # c2
    /\ Len(c1) = Len(c2)
    /\ \A i \in 1..Len(c1) : c1[i] = c2[i] \/ {c1[i], c2[i]} \subseteq Quotes

\* the text without the commas that stand right before a closing bracket
RECURSIVE DropTrailingCommas(_)
DropTrailingCommas(s) ==
    IF s = <<>> THEN <<>>
    ELSE LET k == PrefixLen(Tail(s), Whitespace)
         IN  IF s[1] = "," /\ Len(s) >= 2 + k /\ s[2 + k] \in {"]", "}", ")"}
             THEN DropTrailingCommas(Tail(s))
             ELSE <<s[1]>> \o DropTrailingCommas(Tail(s))

\* the two contents differ, and only in trailing commas
TrailingCommaOnly(c1, c2) ==
    c1 # c2 /\ DropTrailingCommas(c1) = DropTrailingCommas(c2)

\* the orderings of the members of S
Orderings(S) ==
    {q \in [1..Cardinality(S) -> S] : \A i, j \in 1..Cardinality(S) : i # j => q[i] # q[j]}

\* the two contents are one export list with its names in two orders
ExportOrderOnly(c1, c2) ==
    \E n1, n2 \in Orderings({"foo", "bar"}) :
        n1 # n2 /\ c1 = ExportList(n1) /\ c2 = ExportList(n2)

\* the two contents are one object literal with its properties in two orders
PropertyOrderOnly(c1, c2) ==
    \E p1, p2 \in Orderings({<<"a", "1">>, <<"b", "2">>}) :
        p1 # p2 /\ c1 = ObjectLiteral(p1) /\ c2 = ObjectLiteral(p2)

\* the two contents are the same import statements in two orders
ImportOrderOnly(c1, c2) ==
    \E n1, n2 \in Orderings({"a", "b"}) :
        /\ n1 # n2
        /\ c1 = ImportLine(n1[1]) \o <<"\n">> \o ImportLine(n1[2])
        /\ c2 = ImportLine(n2[1]) \o <<"\n">> \o ImportLine(n2[2])

\* C7 as stated: two files at one path that differ only in whitespace, with
\* differing hashes, get no diff when ignoreWhitespace is true and at least one
\* diff when it is absent or false.
C7_WhitespaceOnlyDiffs ==
    verdict.done =>
        \A pr \in ComparedFiles :
            WhitespaceOnly(a3Output.files[pr[1]].content, a4Output.files[pr[2]].content)
            => (IgnoreWhitespace(options) <=> NoDiffAt(a3Output.files[pr[1]].path))

\* C8 as stated: with ignoreComments true, two files at one path that differ
\* only in comments get no diff and the verdict is MATCH, also when
\* ignoreWhitespace is true as well.
C8_CommentsOnlyDiffs ==
    (verdict.done /\ IgnoreComments(options)) =>
        \A pr \in ComparedFiles :
            CommentsOnly(a3Output.files[pr[1]].content, a4Output.files[pr[2]].content)
            => /\ NoDiffAt(a3Output.files[pr[1]].path)
               /\ Len(a3Output.files) = 1 /\ Len(a4Output.files) = 1
                     => verdict.verdict = "MATCH"

\* C9 as stated: whatever the options, two files at one path that differ only
\* in quote style, only in trailing commas or only in the order of an export
\* list get no diff, and adjudicate returns MATCH with semanticallyEquivalent.
C9_StyleOnlyDiffs ==
    verdict.done =>
        \A pr \in ComparedFiles :
            LET c1 == a3Output.files[pr[1]].content
                c2 == a4Output.files[pr[2]].content
            IN  (QuoteOnly(c1, c2) \/ TrailingCommaOnly(c1, c2) \/ ExportOrderOnly(c1, c2))
                => /\ NoDiffAt(a3Output.files[pr[1]].path)
                   /\ Len(a3Output.files) = 1 /\ Len(a4Output.files) = 1
                         => verdict.verdict = "MATCH" /\ verdict.semanticallyEquivalent

\* C10 as stated: two files at one path that differ only in the order of
\* import statements or of object properties get no diff and verdict MATCH
\* when semanticMode is 'relaxed', and a diff and a verdict other than MATCH
\* when it is 'strict'.
C10_SemanticModeDecides ==
    (verdict.done /\ options.present) =>
        \A pr \in ComparedFiles :
            LET c1 == a3Output.files[pr[1]].content
                c2 == a4Output.files[pr[2]].content
                p == a3Output.files[pr[1]].path
            IN  (ImportOrderOnly(c1, c2) \/ PropertyOrderOnly(c1, c2))
                => /\ options.semanticMode = "relaxed"
                         => NoDiffAt(p) /\ verdict.verdict = "MATCH"
                   /\ options.semanticMode = "strict"
                         => ~NoDiffAt(p) /\ verdict.verdict # "MATCH"

----------------------------------------------------------------------------
(* Properties of Generator B *)

\* the value of the constant that buildConstantsFile declares under a name
ConstantValue(manifest, name) ==
    LET ast == ConstantsAST(manifest)
    IN  ast[First({i \in 1..Len(ast) : ast[i].name = name})].value

\* the text a value is rendered as
Rendered(value) == serializeValue(value, 0)

HasKey(content, key) == \E i \in 1..Len(content) : content[i].key = key

\* C5: two generate calls on one manifest text return the same files (path,
\* content, hash, in order), the same manifestHash and the same bundle hash,
\* whatever the clock showed during each; of the metadata only timestamp and
\* durationMs may differ.
C5_GeneratorBDeterministic ==
    (output[1].done /\ output[2].done) =>
        /\ output[1].files = output[2].files
        /\ output[1].metadata.manifestHash = output[2].metadata.manifestHash
        /\ output[1].hash = output[2].hash
        /\ output[1].metadata.version = output[2].metadata.version
        /\ output[1].metadata.generator = output[2].metadata.generator
        /\ output[1].metadata.fileCount = output[2].metadata.fileCount

\* two finished runs whose timestamps and durations differ
C5_Witness ==
    /\ output[1].done /\ output[2].done
    /\ output[1].metadata.timestamp # output[2].metadata.timestamp
    /\ output[1].metadata.durationMs # output[2].metadata.durationMs
    /\ Len(output[1].files) = 5

\* C6 as stated: for every optional section or field that the document
\* lacks, the value Generator B renders equals the value the Manifest Parser
\* gives the field, which is its hard-coded default.
C6_FallbacksMatchParser ==
    \A r \in Runs :
        (gen[r].pc = "done" /\ loaded.done /\ loaded.success) =>
            LET m == gen[r].manifest
                p == loaded.manifest
                Missing(section, keys) ==
                    ~HasKey(manifestFile, section)
                    \/ \E k \in keys : ~HasKey(manifestFile, k)
            IN  /\ Missing("thresholds", {"critical", "low", "nominal", "optimal"})
                      => Rendered(ConstantValue(m, "THRESHOLDS")) = Rendered(Get(p, "thresholds"))
                /\ Missing("weights", {"A3_governance", "A4_architecture",
                                       "A5_implementation", "validation"})
                      => Rendered(ConstantValue(m, "WEIGHTS")) = Rendered(Get(p, "weights"))
                /\ ~HasKey(manifestFile, "name")
                      => Rendered(Get(ConstantValue(m, "PROJECT"), "name"))
                         = Rendered(Get(Get(p, "project"), "name"))
                /\ ~HasKey(manifestFile, "approval_required")
                      => Rendered(Get(ConstantValue(m, "DIAMOND_HANDS"), "approvalRequired"))
                         = Rendered(Get(Get(p, "diamond_hands"), "approval_required"))
                /\ ~HasKey(manifestFile, "validation_levels")
                      => Rendered(ConstantValue(m, "VALIDATION_LEVELS"))
                         = Rendered(Get(Get(p, "thunder_strike"), "validation_levels"))
                /\ ~HasKey(manifestFile, "required_for_advancement")
                      => Rendered(ConstantValue(m, "REQUIRED_FOR_ADVANCEMENT"))
                         = Rendered(Get(Get(p, "thunder_strike"), "required_for_advancement"))
                /\ ~HasKey(manifestFile, "formats")
                      => Rendered(Get(ConstantValue(m, "EVIDENCE"), "formats"))
                         = Rendered(Get(Get(p, "evidence"), "formats"))
                /\ ~HasKey(manifestFile, "required_artifacts")
                      => Rendered(Get(ConstantValue(m, "EVIDENCE"), "requiredArtifacts"))
                         = Rendered(Get(Get(p, "evidence"), "required_artifacts"))

----------------------------------------------------------------------------
(* Properties of the Diff Builder *)

\* how many entries of a list have the type, the severity and the path
CountAt(list, type, sev, path) ==
    Cardinality({k \in 1..Len(list) :
                    list[k].type = type /\ list[k].severity = sev /\ list[k].path = path})

\* pairs <<i, j>> of a file of A3 and the file of A4 that buildDiff matches it with
MatchedFiles ==
    {<<i, j>> \in (1..Len(a3Output.files)) \X (1..Len(a4Output.files)) :
        j = FindFile(a4Output.files, a3Output.files[i].path)}

\* the exported names that only one of the two contents declares
OneSidedNames(c3, c4) ==
    LET n3 == Range(extractExports(c3))
        n4 == Range(extractExports(c4))
    IN  (n3 \ n4) \cup (n4 \ n3)

\* the export declarations whose name the other content does not declare
OneSidedDeclarations(c3, c4) ==
    LET e3 == extractExports(c3)
        e4 == extractExports(c4)
    IN  Cardinality({k \in 1..Len(e3) : e3[k] \notin Range(e4)})
        + Cardinality({k \in 1..Len(e4) : e4[k] \notin Range(e3)})

\* what buildDiff reports for one matched pair, the number of major
\* CONTENT_DIFF entries being exportDiffs
FileMismatchesAre(pr, exportDiffs) ==
    LET f3 == a3Output.files[pr[1]]
        f4 == a4Output.files[pr[2]]
        list == diffResult.mismatches
        lineDiffs == IF LineCount(f3.content) # LineCount(f4.content) THEN 1 ELSE 0
        atPath == Cardinality({k \in 1..Len(list) : list[k].path = f3.path})
    IN  IF f3.hash = f4.hash THEN atPath = 0
        ELSE /\ CountAt(list, "HASH_MISMATCH", "major", f3.path) = 1
             /\ CountAt(list, "CONTENT_DIFF", "minor", f3.path) = lineDiffs
             /\ CountAt(list, "CONTENT_DIFF", "major", f3.path) = exportDiffs
             /\ atPath = 1 + lineDiffs + exportDiffs

MetadataEntries(list) ==
    {k \in 1..Len(list) : list[k].path \notin PathsIn(a3Output) \cup PathsIn(a4Output)}

\* 1 if the two values differ, else 0
Differ(x, y) == IF x # y THEN 1 ELSE 0

\* the file lists of the two bundles are the same
EqualFiles ==
    /\ Len(a3Output.files) = Len(a4Output.files)
    /\ \A i \in 1..Len(a3Output.files) : a3Output.files[i] = a4Output.files[i]

----------------------------------------------------------------------------
(* Properties of the failures of adjudicate *)

\* the call of adjudicate has ended, by a return or by an exception
AdjudicateEnded == pc = "adjudicated"

\* a bundle argument of adjudicate was missing
BundleMissing == absent \cap {"a3Output", "a4Output"} # {}

\* both bundles were there and the comparison met a fault inside compare
InternalFault == absent # {} /\ ~BundleMissing

\* the call ended in a failure: it raised an exception and returned nothing
Failed == ~verdict.done /\ verdict.thrown # ""

\* C13: adjudicate with a bundle missing ends in a failure; a fault inside the
\* comparison ends in a returned result with verdict ERROR; neither returns
\* the verdict MATCH.
C13_FaultsBecomeErrorVerdict ==
    AdjudicateEnded =>
        /\ BundleMissing => Failed
        /\ InternalFault => verdict.done /\ verdict.verdict = "ERROR"
        /\ absent # {} => ~(verdict.done /\ verdict.verdict = "MATCH")

----------------------------------------------------------------------------
(* Properties of the manifest loader and of the failures of generate *)

\* the result of validating the document of the file, as loadManifest does
Validation == validateManifest(parseYaml(manifestFile))

\* the number of the entries of a sequence of codes that are the given code
CountCode(codes, code) == Cardinality({k \in 1..Len(codes) : codes[k] = code})

\* C14: generate returns no bundle for a bad configuration: with no readable
\* file at the path the call fails, and with a document that fails validation
\* the call fails as well; no bundle, whole or partial, is returned.
C14_NoBundleForBadConfiguration ==
    \A r \in Runs :
        /\ fileKind # "file" =>
              /\ ~output[r].done
              /\ gen[r].pc \in {"idle", "started", "failed"}
              /\ gen[r].files = <<>>
        /\ (fileKind = "file" /\ ~Validation.valid) => ~output[r].done

\* the number, in hundredths, the document writes for a key, or the parser's
\* default, given in hundredths, if the document has no line for the key
Written(key, default) ==
    LET at == First({k \in 1..Len(manifestFile) :
                       manifestFile[k].key = key /\ manifestFile[k].value \in NumberTexts})
    IN  IF at = 0 THEN default ELSE NumberValue(parseFloat(manifestFile[at].value))

\* 1 if the first number is not below the second, else 0
OutOfOrder(x, y) == IF x >= y THEN 1 ELSE 0

\* loadManifest has returned from reading a file
LoadedFile == loaded.done /\ fileKind = "file"

\* C15: loadManifest gives one INVALID_THRESHOLDS error for each adjacent pair
\* of the document's thresholds that is not strictly increasing, so none for
\* critical < low < nominal < optimal; with any such error success is false
\* and there is no manifest.
C15_ThresholdOrderDecides ==
    LoadedFile =>
        LET critical == Written("critical", 30)
            low == Written("low", 50)
            nominal == Written("nominal", 70)
            optimal == Written("optimal", 90)
            count == CountCode(loaded.validationResult.errors, "INVALID_THRESHOLDS")
        IN  /\ count = OutOfOrder(critical, low) + OutOfOrder(low, nominal)
                        + OutOfOrder(nominal, optimal)
            /\ count > 0 => ~loaded.success /\ loaded.manifest.kind = "undefined"

\* C16: a document with no version key gets a MISSING_VERSION error and one
\* with no project name a MISSING_PROJECT_NAME error, and either makes the
\* load fail.
C16_VersionAndNameRequired ==
    LoadedFile =>
        /\ ~HasKey(manifestFile, "version") =>
              /\ CountCode(loaded.validationResult.errors, "MISSING_VERSION") = 1
              /\ ~loaded.success
        /\ ~HasKey(manifestFile, "name") =>
              /\ CountCode(loaded.validationResult.errors, "MISSING_PROJECT_NAME") = 1
              /\ ~loaded.success

\* the sum, in hundredths, of the four weights of the manifest validateManifest
\* is given
WeightSum ==
    LET weights == Get(parseYaml(manifestFile), "weights")
    IN  NumberValue(Get(weights, "A3_governance").text)
        + NumberValue(Get(weights, "A4_architecture").text)
        + NumberValue(Get(weights, "A5_implementation").text)
        + NumberValue(Get(weights, "validation").text)

\* the distance of two numbers
Distance(x, y) == IF x >= y THEN x - y ELSE y - x

\* C17: validateManifest gives exactly one WEIGHT_SUM warning iff the sum of
\* the four weights differs from 1.0 by more than 0.01; weights give no error,
\* and valid and success say that there is no error, so that a document whose
\* only problem is its weight sum loads with the warning; thresholds
\* 0.3/0.5/0.7/0.9 with weights that sum to 1.0 give no error and no warning.
C17_WeightSumOnlyWarns ==
    LoadedFile =>
        LET result == loaded.validationResult
        IN  /\ CountCode(result.warnings, "WEIGHT_SUM")
                  = (IF Distance(WeightSum, 100) > 1 THEN 1 ELSE 0)
            /\ Len(result.warnings) = CountCode(result.warnings, "WEIGHT_SUM")
            /\ Range(result.errors) \subseteq
                  {"MISSING_VERSION", "MISSING_PROJECT_NAME", "INVALID_THRESHOLDS",
                   "INVALID_THRESHOLD"}
            /\ result.valid = (Len(result.errors) = 0)
            /\ loaded.success = (Len(result.errors) = 0)
            /\ (/\ Written("critical", 0) = 30 /\ Written("low", 0) = 50
                /\ Written("nominal", 0) = 70 /\ Written("optimal", 0) = 90
                /\ Written("threshold", 75) = 75
                /\ WeightSum = 100)
                  => Len(result.errors) = 0 /\ Len(result.warnings) = 0

\* the number, in hundredths, normalizeManifest gives the key of a section
Normalized(section, key) ==
    NumberValue(Get(Get(parseYaml(manifestFile), section), key).text)

\* the document consists of its version line and at most a project section
OnlyRequiredSections ==
    \A k \in 1..Len(manifestFile) :
        manifestFile[k].indent = 0 => manifestFile[k].key \in {"version", "project"}

\* C18: normalizeManifest keeps every value the document writes, the number 0
\* and the boolean false included, and puts the default only where the
\* document has no value; a document without the optional sections loads
\* without error.
C18_DefaultsOnlyForAbsentFields ==
    LoadedFile =>
        /\ Normalized("thresholds", "critical") = Written("critical", 30)
        /\ Normalized("thresholds", "low") = Written("low", 50)
        /\ Normalized("thresholds", "nominal") = Written("nominal", 70)
        /\ Normalized("thresholds", "optimal") = Written("optimal", 90)
        /\ Normalized("weights", "A3_governance") = Written("A3_governance", 30)
        /\ Normalized("weights", "A4_architecture") = Written("A4_architecture", 25)
        /\ Normalized("weights", "A5_implementation") = Written("A5_implementation", 25)
        /\ Normalized("weights", "validation") = Written("validation", 20)
        /\ Normalized("diamond_hands", "threshold") = Written("threshold", 70)
        /\ Normalized("diamond_hands", "required_validation_score")
              = Written("required_validation_score", 80)
        /\ Normalized("evidence", "retention_days") = Written("retention_days", 9000)
        /\ Get(Get(parseYaml(manifestFile), "diamond_hands"), "approval_required").text
              = (IF \E k \in 1..Len(manifestFile) :
                        /\ manifestFile[k].key = "approval_required"
                        /\ manifestFile[k].value = "false"
                  THEN "false" ELSE "true")
        /\ OnlyRequiredSections =>
              loaded.success /\ Len(loaded.validationResult.errors) = 0

\* (a) success with a manifest and a validation result without errors
LoadedManifest ==
    /\ loaded.success
    /\ loaded.error = Undefined
    /\ loaded.manifest.kind = "object"
    /\ loaded.validationResult.kind = "object"
    /\ Len(loaded.validationResult.errors) = 0

\* (b) the file does not exist: a 'not found' error, nothing else
LoadedNotFound ==
    /\ fileKind = "missing"
    /\ ~loaded.success
    /\ loaded.error = "Manifest file not found"
    /\ loaded.manifest.kind = "undefined"
    /\ loaded.validationResult.kind = "undefined"

\* (c) validation failed: no manifest, and the validation result with every
\* error and every warning
LoadedInvalid ==
    /\ fileKind = "file"
    /\ ~loaded.success
    /\ loaded.error = "Manifest validation failed"
    /\ loaded.manifest.kind = "undefined"
    /\ loaded.validationResult.kind = "object"
    /\ loaded.validationResult.errors = Validation.errors
    /\ loaded.validationResult.warnings = Validation.warnings
    /\ Len(loaded.validationResult.errors) > 0

\* (d) the path exists and reading it failed: the error caught, nothing else
LoadedUnreadable ==
    /\ fileKind = "directory"
    /\ ~loaded.success
    /\ loaded.error = "Failed to load manifest"
    /\ loaded.manifest.kind = "undefined"
    /\ loaded.validationResult.kind = "undefined"

\* how many of the given conditions hold
HowMany(conditions) == Len(SelectSeq(conditions, LAMBDA c : c))

\* the call of loadManifest has ended, by a return or by an exception
LoadEnded == loaded # NotDone

\* C19 as stated: loadManifest never throws and its result is exactly one of
\* (a), (b) and (c); there is a manifest iff success is true.
C19_ThreeResults ==
    LoadEnded =>
        /\ loaded.done
        /\ HowMany(<<LoadedManifest, LoadedNotFound, LoadedInvalid>>) = 1
        /\ loaded.success <=> loaded.manifest.kind # "undefined"

\* C19 amended: loadManifest never throws and its result is exactly one of
\* (a), (b), (c) and (d), the result for a path that exists and cannot be
\* read; there is a manifest iff success is true.
C19_FourResults ==
    LoadEnded =>
        /\ loaded.done
        /\ HowMany(<<LoadedManifest, LoadedNotFound, LoadedInvalid, LoadedUnreadable>>) = 1
        /\ loaded.success <=> loaded.manifest.kind # "undefined"

\* loadManifest has returned from a path that exists and cannot be read
C19_Witness ==
    /\ loaded.done
    /\ fileKind = "directory"
    /\ LoadedUnreadable

\* C20: the hash of the manifest of a valid document is the same when the
\* document is parsed again, and the same for a document that has the same
\* keys and values with its top-level sections, or the keys inside its
\* sections, in another order.
C20_HashIgnoresKeyOrder ==
    hashes.done => hashes.hash1 = hashes.hash2

\* a valid document of several sections and the document with its sections
\* reversed have been loaded and hashed
C20_Witness ==
    /\ hashes.done
    /\ hashes.order = "sections"
    /\ Len(Blocks(manifestFile, 0)) > 2
    /\ Reordered(manifestFile, "sections") # manifestFile
    /\ loadManifest("file", Reordered(manifestFile, "sections")).success
    /\ hashes.hash1 = hashes.hash2

----------------------------------------------------------------------------
(* Properties of the hash of the manifest *)

\* C21 as stated: the text hashManifest hashes holds every field of the
\* configuration, so a valid document whose manifest differs from the loaded
\* one in some field value has another hash.
C21_HashCoversEveryField ==
    hashes.done =>
        \A other \in Documents :
            LET result == loadManifest("file", other)
            IN  result.success /\ result.manifest # loaded.manifest
                    => hashManifest(result.manifest) # hashes.hash1

----------------------------------------------------------------------------
(* Properties of the bundle of Generator B *)

\* the five paths of a bundle, in order
CanonicalPaths == <<"types.ts", "constants.ts", "validators.ts", "config.ts", "index.ts">>

\* the text of the ordered (path, hash) pairs of some files and a manifest hash
PairsAndManifestHash(files, manifestHash) ==
    <<"{\"files\":[">>
    \o Join([i \in 1..Len(files) |->
                <<"{\"path\":\"", files[i].path, "\",\"hash\":\"">>
                \o (<<"sha256">> \o files[i].content) \o <<"\"}">>], <<",">>)
    \o <<"],\"manifestHash\":\"">> \o manifestHash \o <<"\"}">>

----------------------------------------------------------------------------
(* Properties of concurrent runs of Generator B *)

\* the files and the bundle hash of a call of generate on a file of the given
\* content, with no other call
GenerateAlone(content) ==
    LET manifest == parseManifestRegex(content)
        four == <<buildTypesFile(manifest), buildConstantsFile(manifest),
                  buildValidatorsFile(manifest), buildConfigFile(manifest)>>
        files == Append(four, buildIndexFile(four))
    IN  [files |-> files,
         hash |-> generateOutputHash(files, generateHash(JSONStringify(manifest)))]

\* the bundle a call has returned is the bundle of the call run alone
ReturnedAsAlone(r) ==
    LET alone == GenerateAlone(FileAt(gen[r].manifestPath).content)
    IN  /\ output[r].files = alone.files
        /\ output[r].hash = alone.hash

\* C23: in every interleaving of the steps of two calls of generate, on the
\* same file or on two files, each call returns the files and the bundle
\* hash it returns when it runs alone; and the bundles handed to the
\* comparison are the bundles the two calls returned, completely built.
C23_RunsShareNoState ==
    /\ \A r \in Runs : output[r].done => ReturnedAsAlone(r)
    /\ pc # "generating" =>
          /\ \A r \in Runs : gen[r].pc = "done" /\ output[r].done
          /\ a3Output = output[1]
          /\ a4Output = output[2]
          /\ \A r \in Runs : Len(output[r].files) = 5 /\ ReturnedAsAlone(r)

\* two calls on two different files, each begun before the other was
\* stamped, have returned and their bundles have been handed to the comparison
C23_Witness ==
    /\ pc = "start"
    /\ gen[1].manifestPath # gen[2].manifestPath
    /\ manifestFile # OtherManifest
    /\ gen[1].startTime < gen[2].timestamp
    /\ gen[2].startTime < gen[1].timestamp
    /\ a3Output.hash # a4Output.hash

----------------------------------------------------------------------------
(* Properties of repeated calls of the Diff Builder *)

\* C24 as stated: a second call of buildDiff on the same two bundles returns
\* the DiffResult of the first call in every field (the report of the first
\* call keeps each of them), and the report made from it is the report of the
\* first call.
C24_BuildDiffIsPure ==
    pc = "rediffed" =>
        /\ diffResult.timestamp = diffReport.timestamp
        /\ diffResult.a3Hash = diffReport.a3Hash
        /\ diffResult.a4Hash = diffReport.a4Hash
        /\ diffResult.totalDiffs = diffReport.totalDiffs
        /\ diffResult.mismatches = diffReport.mismatches
        /\ diffResult.summary = diffReport.summary
        /\ generateDiffReport(diffResult) = diffReport

----------------------------------------------------------------------------
(* Properties of the two readers of the manifest *)

\* the sections of the configuration that both readers fill
SharedSections ==
    {"project", "thresholds", "weights", "diamond_hands", "thunder_strike", "evidence"}

\* the names of the metrics of a configuration
MetricNames(manifest) ==
    LET metrics == Get(manifest, "metrics")
    IN  {metrics.items[i].key : i \in 1..Len(metrics.items)}

\* C25 as stated: for a valid document, the configuration Generator B
\* extracts has, in every section both readers fill (project, thresholds,
\* weights, diamond_hands, thunder_strike, evidence), the values of the
\* configuration the Manifest Parser returns, and the same metric names.
C25_ReadersAgree ==
    \A r \in Runs :
        (gen[r].pc \in {"parsed", "built", "stamped", "done"}
            /\ gen[r].manifestPath = "manifest.yaml"
            /\ loaded.done /\ loaded.success) =>
            /\ \A section \in SharedSections :
                   Get(gen[r].manifest, section) = Get(loaded.manifest, section)
            /\ MetricNames(gen[r].manifest) = MetricNames(loaded.manifest)

----------------------------------------------------------------------------
(* Properties of the reading of a scalar *)

\* the text before the comment of a bare text: up to the first '#', trimmed
BeforeComment(text) ==
    LET at == First({k \in 1..Len(text) : text[k] = "#"})
    IN  IF at = 0 THEN text ELSE Trim(SubSeq(text, 1, at - 1))

\* where the quote that opens the text closes, 0 if the text opens with no
\* quote or the quote does not close
ClosingQuote(text) ==
    IF Len(text) = 0 \/ text[1] \notin Quotes THEN 0
    ELSE First({k \in 2..Len(text) : text[k] = text[1]})

\* optional '-', digits, optional '.', digits
SignedDecimal(text) ==
    LET digits == {"0", "1", "2", "3", "4", "5", "6", "7", "8", "9"}
        unsigned == IF Len(text) > 0 /\ text[1] = "-" THEN Tail(text) ELSE text
    IN  \E whole \in 0..Len(unsigned), dot \in 0..1 :
            /\ whole + dot < Len(unsigned)
            /\ \A k \in 1..whole : unsigned[k] \in digits
            /\ dot = 1 => unsigned[whole + 1] = "."
            /\ \A k \in (whole + dot + 1)..Len(unsigned) : unsigned[k] \in digits

\* what the fixed rules make of a text: the string between matching quotes,
\* whatever it holds; else, of the text before the comment, no value when
\* nothing is left, a boolean, a number, or the text as a string
RuleValue(text) ==
    LET closing == ClosingQuote(text)
        bare == BeforeComment(text)
    IN  IF closing > 0
        THEN [done |-> TRUE, hasValue |-> TRUE,
              stored |-> JsString(SubSeq(text, 2, closing - 1))]
        ELSE IF bare = <<>>
        THEN [done |-> TRUE, hasValue |-> FALSE, stored |-> JsObject(<<>>)]
        ELSE [done |-> TRUE, hasValue |-> TRUE,
              stored |-> IF bare = <<"true">> THEN JsBoolean(TRUE)
                         ELSE IF bare = <<"false">> THEN JsBoolean(FALSE)
                         ELSE IF SignedDecimal(bare) THEN JsNumber(bare)
                         ELSE JsString(bare)]

\* C26 as stated: a key line stores what the fixed rules make of the text
\* after its colon: a quoted text gives the string between the quotes, a '#'
\* inside them kept; bare true / false give booleans; a bare signed decimal
\* gives a number; any other text gives a string; a trailing comment is
\* removed first, and a text that is only a comment gives a key without a
\* value.
C26_ScalarRules ==
    parsed.done => parsed = RuleValue(keyText)

----------------------------------------------------------------------------
(* Properties of the walk over the lines *)

\* the last line before line i that is a key line of the kind asked for, 0
\* if there is none
KeyLineBefore(i, kind) ==
    Max({0} \cup {k \in 1..(i - 1) :
                    /\ manifestFile[k].key # "-"
                    /\ CASE kind = "top" -> manifestFile[k].indent = 0
                         [] kind = "second" -> manifestFile[k].indent = 2
                         [] kind = "open" -> manifestFile[k].value = ""})

\* the value at the key of the key line k: a top-level key in the result, a
\* second-level key in its section, a deeper key in its subsection
ValueOfKeyLine(result, k) ==
    LET line == manifestFile[k]
        section == Get(result, manifestFile[KeyLineBefore(k, "top")].key)
    IN  IF line.indent = 0 THEN Get(result, line.key)
        ELSE IF KeyLineBefore(k, "top") = 0 THEN JsUndefined
        ELSE IF line.indent = 2 THEN Get(section, line.key)
        ELSE IF KeyLineBefore(k, "second") = 0 THEN JsUndefined
        ELSE Get(Get(section, manifestFile[KeyLineBefore(k, "second")].key), line.key)

\* the section holds what the key line says, at the key or one level below
HoldsLine(section, line) ==
    LET Says(v) == IF line.value # "" THEN v = parseValue(line.value, line.quoted)
                   ELSE v.kind \in {"array", "object"}
    IN  \/ Says(Get(section, line.key))
        \/ \E n \in 1..Len(section.items) : Says(Get(section.items[n].value, line.key))

\* C27 as stated: while parseYaml walks the lines, an indented key line is
\* stored under the most recent top-level key line before it and changes no
\* other top-level key of the result (a top-level key line of either kind
\* closes the section before it), and a list item is appended to the list of
\* the most recent key without a value: none is dropped.
C27_WalkKeepsSections ==
    [][ParseNextLine =>
        LET i == walk.line
            line == manifestFile[i]
            top == KeyLineBefore(i, "top")
            open == KeyLineBefore(i, "open")
        IN  /\ line.key # "-" /\ line.indent > 0 /\ top > 0 =>
                /\ \A n \in 1..Len(walk.result.items) :
                        walk.result.items[n].key # manifestFile[top].key
                            => Get(walk'.result, walk.result.items[n].key)
                                    = walk.result.items[n].value
                /\ manifestFile[top].value = ""
                        => HoldsLine(Get(walk'.result, manifestFile[top].key), line)
            /\ line.key = "-" /\ open > 0 =>
                ValueOfKeyLine(walk'.result, open)
                    = JsArray(Append(ValueOfKeyLine(walk.result, open).items,
                                     parseValue(line.value, line.quoted)))]_vars

----------------------------------------------------------------------------
(* Properties of the Adjudicator against the Diff Builder *)

\* the entries of a list that report a path on one side only
OneSidedEntries(list) ==
    {<<list[i].type, list[i].path>> :
        i \in {k \in 1..Len(list) : list[k].type \in {"MISSING_FILE", "EXTRA_FILE"}}}

\* C28: on the same two bundles, whatever the options, the Adjudicator is at
\* least as lenient as the Diff Builder: when the verdict derived from the
\* Diff Builder's summary is MATCH, adjudicate returns MATCH with confidence
\* 1.0; adjudicate returns MISMATCH exactly when the derived verdict is
\* MISMATCH; and both lists report the same MISSING_FILE and EXTRA_FILE paths.
C28_AdjudicatorAtLeastAsLenient ==
    verdict.done /\ absent = {} =>
        /\ diffReport.verdict = "MATCH"
                => verdict.verdict = "MATCH" /\ verdict.confidence = 100
        /\ verdict.verdict = "MISMATCH" <=> diffReport.verdict = "MISMATCH"
        /\ OneSidedEntries(verdict.diffs) = OneSidedEntries(diffReport.mismatches)

\* the Diff Builder's verdict is MATCH for two bundles whose files at one path
\* differ in content under equal file hashes, and adjudicate has returned
\* with options given
C28_Witness ==
    /\ verdict.done
    /\ absent = {}
    /\ options.present
    /\ diffReport.verdict = "MATCH"
    /\ \E i \in 1..Len(a3Output.files), j \in 1..Len(a4Output.files) :
            /\ a3Output.files[i].path = a4Output.files[j].path
            /\ a3Output.files[i].content # a4Output.files[j].content

----------------------------------------------------------------------------
(* Properties of the result of the Diff Builder *)

\* C29: every result of buildDiff has totalDiffs equal to the sum of its four
\* severity counts and to the number of its mismatches; filesMatch is true
\* exactly when the two bundles have the same set of paths, which is exactly
\* when criticalCount is 0; and hashMatch is true exactly when the two bundle
\* hashes are equal, whatever the mismatch list holds.
C29_DiffResultInvariants ==
    diffResult.done =>
        LET summary == diffResult.summary
        IN  /\ diffResult.totalDiffs = summary.criticalCount + summary.majorCount
                                        + summary.minorCount + summary.infoCount
            /\ diffResult.totalDiffs = Len(diffResult.mismatches)
            /\ summary.filesMatch <=> PathsIn(a3Output) = PathsIn(a4Output)
            /\ summary.filesMatch <=> summary.criticalCount = 0
            /\ summary.hashMatch <=> a3Output.hash = a4Output.hash

\* a result with two critical mismatches and a major one, for two bundles of
\* equal hash
C29_Witness ==
    /\ diffResult.done
    /\ diffResult.summary.hashMatch
    /\ ~diffResult.summary.filesMatch
    /\ diffResult.summary.criticalCount = 2
    /\ diffResult.summary.majorCount > 0
    /\ diffResult.totalDiffs > 3

----------------------------------------------------------------------------
(* Properties of the soundness of MATCH *)

\* the content as the options let it be compared: whitespace normalized if
\* ignoreWhitespace is on, comments removed by the lexical grammar if
\* ignoreComments is on, in either order
ComparedAs(c, opts) ==
    LET NoSpaces(t) == IF IgnoreWhitespace(opts) THEN normalizeWhitespace(t) ELSE t
        NoComments(t) == IF IgnoreComments(opts) THEN LexStripComments(t, "code") ELSE t
    IN  {NoComments(NoSpaces(c)), NoSpaces(NoComments(c))}

\* pairs <<i, j>> of a file of A3 and a file of A4 at the same path
CommonFiles ==
    {<<i, j>> \in (1..Len(a3Output.files)) \X (1..Len(a4Output.files)) :
        a3Output.files[i].path = a4Output.files[j].path}

\* C30 as stated: adjudicate returns semanticallyEquivalent = true only if
\* the two bundles have the same set of paths and the two contents at every
\* common path are equal once whitespace is normalized (if ignoreWhitespace
\* is on) and comments are removed (if ignoreComments is on): contents that
\* differ in code or in the text of a string literal, or that differ under
\* equal hash fields, never give MATCH.
C30_MatchIsSound ==
    verdict.done /\ verdict.semanticallyEquivalent =>
        /\ PathsIn(a3Output) = PathsIn(a4Output)
        /\ \A pr \in CommonFiles :
                ComparedAs(a3Output.files[pr[1]].content, options)
                    \cap ComparedAs(a4Output.files[pr[2]].content, options) # {}

====
